---- MODULE Spec2Model ----
(***************************************************************************)
(* A model of the chart solver of test/tools/solver.py: the oracle client  *)
(* (_test_chart_with_params_task), the bisection minimizer                 *)
(* (_minimize_parameter_set_task, _find_minimal_recursive), the per-chart  *)
(* search strategies, the worker boundary (_process_chart_task) and the    *)
(* orchestrator with its checkpoint file (ChartSolver.solve).              *)
(*                                                                         *)
(* Six specifications share the variables:                                 *)
(*   SpecMinimize     one direct call of _minimize_parameter_set_task      *)
(*   SpecTask         one call of _process_chart_task (a worker)           *)
(*   SpecSolve        ChartSolver.solve with its checkpoint file           *)
(*   SpecResume       a run of solve and the run that resumes it, the      *)
(*                    workers not bound to act the same each time          *)
(*   SpecTermination  the three kinds of call under weak fairness          *)
(*   SpecClassify     categorize_error on the text of a failed validator   *)
(*                    run                                                  *)
(***************************************************************************)
EXTENDS Integers, Sequences, FiniteSets, TLC

VARIABLES
    \* ---- the external validator, as the program observes it
    detOracle,      \* TRUE: the validator is a function of the parameter set
    known,          \* answers of a deterministic validator revealed so far
    oracleLog,      \* every validator invocation, in call order
    \* ---- _minimize_parameter_set_task / _find_minimal_recursive
    mpc,            \* "idle" | "enter" | "singles" | "rec" | "done"
    working_set,    \* the working set a direct call was first given
    params,         \* the argument params of the running call
    param_names,    \* sorted(params.keys())
    mIdx,           \* position of the singles loop in param_names
    stack,          \* call stack of _find_minimal_recursive
    minimal_set,    \* the value _minimize_parameter_set_task returned
    \* ---- the checks run on the result of a direct call or of a task
    post,           \* "none" | "probed" | "again"
    probe,          \* a fresh validator call made after the run
    first_result,   \* minimize(P), kept while minimize(minimize(P)) runs
    \* ---- _process_chart_task and the strategy function it dispatches to
    tpc,            \* "none" | "start" | "baseline" | "kube" | "all" |
                    \* "targeted" | "exhaustive" | "minimize" | "done"
    chart_info,     \* the chart: its name and what its archive holds
    solver_config,  \* strategy, parameter_matrix, max_attempts_per_chart
    chart_results,  \* the record the strategy function builds
    param_sets,     \* the combinations the running loop has still to try
    temp_dir,       \* "none" | "exists" | "removed"
    raised,         \* the exception caught at the worker boundary, or None
    task_result,    \* the record _process_chart_task returned, or None
    \* ---- ChartSolver.solve, the worker pool and the checkpoint file
    run,            \* "none" | "reference" | "first" | "resumed"
    spc,            \* "none" | "start" | "collect" | "save" | "dump" | "report" |
                    \* "returned" | "raised" | "stopped"
    chart_paths,    \* the argument chart_paths, the same in every run
    solver,         \* max_workers, checkpoint_interval, output_file, irr_exists
    checkpoint,     \* the checkpoint file
    replaced,       \* the checkpoint file as it was when last opened for writing
    results,        \* self.results
    loaded,         \* loaded_checkpoint of the running solve
    submitted,      \* processed_chart_paths: what was submitted to the pool
    futures,        \* "pending" | "done" for every submitted chart
    calls,          \* validator calls made for every submitted chart
    fIdx,           \* position of the loop over future_to_chart
    processed_count,
    after,          \* where solve goes on after the running _save_checkpoint
    last_step,      \* "save" if solve has just completed a _save_checkpoint
    stopped_at,     \* the spc and last_step at which the first run was stopped
    reference,      \* the result map of the run that was not interrupted
    \* ---- categorize_error where _test_chart_with_params_task calls it
    subprocess_run, \* what subprocess.run did: "none" | "returncode 0" |
                    \* "returncode 1" | "TimeoutExpired" | "FileNotFoundError"
    stderr,         \* the diagnostic text of a validator run that failed
    test_result     \* the TestResult built from it, or NoResult

mvars == <<detOracle, known, oracleLog, mpc, working_set, params, param_names, mIdx, stack,
           minimal_set, post, probe, first_result>>

tvars == <<tpc, chart_info, solver_config, chart_results, param_sets, temp_dir, raised,
           task_result>>

svars == <<run, spc, chart_paths, solver, checkpoint, replaced, results, loaded, submitted,
           futures, calls, fIdx, processed_count, after, last_step, stopped_at, reference>>

cvars == <<subprocess_run, stderr, test_result>>

vars == <<mvars, tvars, svars, cvars>>

(***************************************************************************)
(* Bounds of the model.                                                    *)
(***************************************************************************)
\* number of pool parameters a directly minimized working set is drawn from
NKeys == 3

(***************************************************************************)
(* Python values.  None is the string "None"; a parameter value is its     *)
(* string form.  A dict is the sequence of its (key, value) items in       *)
(* insertion order.                                                        *)
(***************************************************************************)
None == "None"

\* None in a place that otherwise holds a dict
NoneParams == << <<"None", "None">> >>

\* None in a place that otherwise holds the record of a chart
NoneRecord == [classification |-> None]

\* every parameter name of solver.py, in the order sorted() gives (code points)
KEY_ORDER ==
    << "allowInsecureImages", "auth", "base_values", "global",
       "global.imageRegistry", "global.mongodb.auth.enabled",
       "global.postgresql.auth.enabled", "global.redis.auth.enabled",
       "global.security.allowInsecureImages", "image", "image.registry",
       "installCRDs", "kubeVersion", "loki.storage.type", "lokiAddress",
       "persistence", "persistence.enabled", "registry",
       "serviceAccount.create", "tempoAddress.push", "tempoAddress.query" >>

Rank(k) == CHOOSE i \in DOMAIN KEY_ORDER : KEY_ORDER[i] = k

Items(d) == {d[i] : i \in DOMAIN d}

\* the list with the elements f[1], ..., f[n], as a sequence
List(f) == SubSeq(f, 1, Len(f))

KeySet(d) == {d[i][1] : i \in DOMAIN d}

\* list(d.keys())
Keys(d) == List([i \in DOMAIN d |-> d[i][1]])

\* d[k]
Get(d, k) == (CHOOSE it \in Items(d) : it[1] = k)[2]

\* {k: d[k] for k in names}
Restrict(d, names) == List([i \in DOMAIN names |-> <<names[i], Get(d, names[i])>>])

\* line 455, mutated: the keys in insertion order
InsertionKeys(d) == Keys(d)

\* sorted(d.keys())
SortedKeys(d) == SortSeq(Keys(d), LAMBDA a, b : Rank(a) < Rank(b))

RECURSIVE AppendNew(_, _)
AppendNew(a, b) ==
    IF b = <<>> THEN a
    ELSE AppendNew(IF b[1][1] \in KeySet(a) THEN a ELSE Append(a, b[1]), Tail(b))

\* the mutant of Merge: the two results concatenated as if they were lists
MergeConcat(a, b) == a \o b

\* {**a, **b}: a's keys keep their place and take b's value, b's new keys follow
Merge(a, b) ==
    AppendNew(List([i \in DOMAIN a |->
                       IF a[i][1] \in KeySet(b) THEN <<a[i][1], Get(b, a[i][1])>> ELSE a[i]]),
              b)

\* dict equality of Python: the same items, whatever the insertion order
DictEq(a, b) == Items(a) = Items(b) /\ Len(a) = Len(b)

\* no checkpoint file
Absent == [exists |-> FALSE, complete |-> FALSE, json |-> <<>>]

\* no TestResult
NoResult == [status |-> None, category |-> None]

\* categorize_error is not called on a text of its own
NoClassify == subprocess_run = "none" /\ stderr = "" /\ test_result = NoResult

\* ChartSolver.solve is not running: a direct call of a worker or of the minimizer
NoSolve ==
    /\ run = "none" /\ spc = "none" /\ chart_paths = <<>>
    /\ solver = [max_workers |-> 0, checkpoint_interval |-> 0, output_file |-> None,
                 irr_exists |-> TRUE]
    /\ checkpoint = Absent /\ replaced = Absent
    /\ results = <<>> /\ loaded = <<>> /\ submitted = <<>> /\ futures = <<>> /\ calls = <<>>
    /\ fIdx = 0 /\ processed_count = 0 /\ after = "none" /\ last_step = "none"
    /\ stopped_at = [spc |-> "none", last_step |-> "none"] /\ reference = <<>>

(***************************************************************************)
(* The oracle client.  A TestResult is kept as its status and category.    *)
(***************************************************************************)
SUCCESS == [status |-> "SUCCESS", category |-> "SUCCESS"]

VALIDATE_SCHEMA == [status |-> "VALIDATE_ERROR", category |-> "SCHEMA_ERROR"]

\* lines 336-346, mutated: the timeout is reported as an unclassified error
TIMEOUT_UNCLASSIFIED == [status |-> "TIMEOUT_ERROR", category |-> "UNKNOWN_ERROR"]

\* lines 336-346
TIMEOUT == [status |-> "TIMEOUT_ERROR", category |-> "TIMEOUT_ERROR"]

\* lines 347-357, mutated: the failure is reported as one of the validation
LAUNCH_FAILURE_AS_VALIDATE == [status |-> "VALIDATE_ERROR", category |-> "UNKNOWN_ERROR"]

\* lines 347-357
LAUNCH_FAILURE == [status |-> "UNKNOWN_ERROR", category |-> "UNKNOWN_ERROR"]

\* what a strategy step can get back
TestResults == {SUCCESS, VALIDATE_SCHEMA, TIMEOUT, LAUNCH_FAILURE}

\* what the minimizer can get back for a set not tested before: it reads only
\* result.status == "SUCCESS", so one failing result stands for all of them
MinimizerResults == {SUCCESS, VALIDATE_SCHEMA}

\* no answer revealed yet
NothingKnown == [p \in {} |-> SUCCESS]

\* the results the validator may give for the parameter set p
Answers(p, fresh) ==
    IF detOracle /\ Items(p) \in DOMAIN known THEN {known[Items(p)]} ELSE fresh

\* one run of the validator on p with result r
_test_chart_with_params_task(p, r) ==
    /\ known' = IF detOracle THEN (Items(p) :> r) @@ known ELSE known
    /\ oracleLog' = Append(oracleLog, [parameters |-> p, result |-> r])

(***************************************************************************)
(* The record a worker returns.  A chart name is kept as its words and     *)
(* whether it has the form provider/chart; "w in chart_name" is the        *)
(* membership of w among the words.                                        *)
(***************************************************************************)
providers ==
    << "bitnami", "grafana", "elastic", "prometheus", "jetstack", "apache", "harbor",
       "kong", "istio", "linkerd", "argo", "cert-manager" >>

_extract_provider(chart_name) ==
    IF chart_name.slash THEN chart_name.words[1]
    ELSE LET hits == SelectSeq(providers, LAMBDA p : p \in Items(chart_name.words)) IN
         IF hits = <<>> THEN None ELSE hits[1]

\* lines 750-756, mutated: the record carries no error category
ExtractionErrorUncategorized(chart_name) ==
    [classification |-> "EXTRACTION_ERROR", provider |-> _extract_provider(chart_name),
     attempts |-> <<>>, minimal_success_params |-> NoneParams,
     error_categories |-> <<>>]

\* lines 750-756 and 762-768
ExtractionError(chart_name) ==
    [classification |-> "EXTRACTION_ERROR", provider |-> _extract_provider(chart_name),
     attempts |-> <<>>, minimal_success_params |-> NoneParams,
     error_categories |-> <<"EXTRACTION_ERROR">>]

\* lines 1088-1095, mutated: the record has no exception text
ProcessingErrorSilent(chart_name, e) ==
    [classification |-> "PROCESSING_ERROR", provider |-> _extract_provider(chart_name),
     attempts |-> <<>>, minimal_success_params |-> NoneParams,
     error_categories |-> <<"PROCESSING_ERROR">>, error_details |-> ""]

\* lines 1088-1095: the record the worker boundary makes of the exception e
ProcessingError(chart_name, e) ==
    [classification |-> "PROCESSING_ERROR", provider |-> _extract_provider(chart_name),
     attempts |-> <<>>, minimal_success_params |-> NoneParams,
     error_categories |-> <<"PROCESSING_ERROR">>, error_details |-> e]

\* lines 897-900, mutated: the function returns without a finally
task_return_leaving(rec) ==
    /\ tpc' = "done"
    /\ chart_results' = rec
    /\ task_result' = rec
    /\ UNCHANGED <<chart_info, solver_config, temp_dir, raised>>

\* lines 897-900 and 1086-1095: the strategy function returns rec; its finally
\* removes the temporary directory, and if that raises, the worker boundary
\* turns the exception into the record of a processing error
task_return(rec) ==
    /\ tpc' = "done"
    /\ chart_results' = rec
    /\ \E rmtree \in IF temp_dir = "exists" THEN {"removed", "OSError"} ELSE {"skipped"} :
          /\ temp_dir' = IF rmtree = "removed" THEN "removed" ELSE temp_dir
          /\ raised' = IF rmtree = "OSError" THEN "OSError" ELSE None
          /\ task_result' = IF rmtree = "OSError"
                            THEN ProcessingError(chart_info.name, "OSError")
                            ELSE rec
    /\ UNCHANGED <<chart_info, solver_config>>

\* lines 841-847, mutated: the strategy function never gets the set of the
\* minimizer and stays in the call
minimize_returns_nowhere == UNCHANGED tvars

\* lines 841-847, 881-887 and 1033-1036: the minimizer returns to the strategy
\* function that called it, which stores the set and returns
minimize_returns ==
    IF tpc = "minimize" /\ mpc' = "done"
    THEN /\ task_return([chart_results EXCEPT !.minimal_success_params = minimal_set'])
         /\ UNCHANGED param_sets
    ELSE UNCHANGED tvars

(***************************************************************************)
(* _find_minimal_recursive.  A frame of the stack is one activation:       *)
(*   cand   candidate_params                                               *)
(*   at     where the activation stands:                                   *)
(*            "base"    about to test the single parameter                 *)
(*            "second"  about to test the second half                      *)
(*            "first"   about to test the first half                       *)
(*            "tail"    returns what its recursive call returns            *)
(*            "recFirst"/"recSecond"  waits for minimal_first/second       *)
(*            "verify"  about to test combined_minimal                     *)
(*   held   minimal_first, then combined_minimal                           *)
(***************************************************************************)
\* line 377, mutated: the first half is all but the last parameter
first_half_names_long(cand) == SubSeq(Keys(cand), 1, Len(cand) - 1)

\* line 377
first_half_names(cand) == SubSeq(Keys(cand), 1, Len(cand) \div 2)

second_half_names(cand) == SubSeq(Keys(cand), (Len(cand) \div 2) + 1, Len(cand))

first_half_dict(cand) == Restrict(cand, first_half_names(cand))

second_half_dict(cand) == Restrict(cand, second_half_names(cand))

Frame(cand, at, held) == [cand |-> cand, at |-> at, held |-> held]

Pop(s) == SubSeq(s, 1, Len(s) - 1)

Top(s) == s[Len(s)]

SetTop(s, at, held) == [s EXCEPT ![Len(s)] = Frame(s[Len(s)].cand, at, held)]

\* line 374, mutated: the single parameter is returned whatever the test said
BaseResultUnchecked(ok, cand, best) == cand

\* line 374
BaseResult(ok, cand, best) == IF ok THEN cand ELSE best

\* lines 426-434, mutated: the union is returned without regard to its test
VerifyResultUnchecked(ok, combined, cand) == combined

\* lines 426-434
VerifyResult(ok, combined, cand) == IF ok THEN combined ELSE cand

\* Call(s, cand): _find_minimal_recursive(cand) is called with s the callers;
\* Return(s, v): an activation returns v to the callers s.  Both run the code
\* up to the next validator call and give the stack there, or the final value.
RECURSIVE Call(_, _), Return(_, _)
Call(s, cand) ==
    IF cand = <<>> THEN Return(s, <<>>)
    ELSE IF Len(cand) = 1 THEN [stack |-> Append(s, Frame(cand, "base", <<>>)),
                                done |-> FALSE, value |-> <<>>]
    ELSE [stack |-> Append(s, Frame(cand, "second", <<>>)),
          done |-> FALSE, value |-> <<>>]
Return(s, v) ==
    IF s = <<>> THEN [stack |-> <<>>, done |-> TRUE, value |-> v]
    ELSE CASE Top(s).at = "tail" -> Return(Pop(s), v)
           [] Top(s).at = "recFirst" ->
                  Call(SetTop(s, "recSecond", v), second_half_dict(Top(s).cand))
           [] Top(s).at = "recSecond" ->
                  [stack |-> SetTop(s, "verify", Merge(Top(s).held, v)),
                   done |-> FALSE, value |-> <<>>]

\* the minimizer goes on from the outcome o of Call or Return
Continue(o) ==
    /\ stack' = o.stack
    /\ mpc' = IF o.done THEN "done" ELSE "rec"
    /\ minimal_set' = IF o.done THEN o.value ELSE minimal_set

\* lines 371-374
find_minimal_base ==
    /\ mpc = "rec" /\ Top(stack).at = "base"
    /\ \E r \in Answers(Top(stack).cand, MinimizerResults) :
          /\ _test_chart_with_params_task(Top(stack).cand, r)
          /\ Continue(Return(Pop(stack),
                             BaseResult(r.status = "SUCCESS", Top(stack).cand, params)))
    /\ minimize_returns
    /\ UNCHANGED <<svars, cvars>>
    /\ UNCHANGED <<detOracle, working_set, params, param_names, mIdx, post, probe, first_result>>

\* lines 376-392
find_minimal_second_half ==
    /\ mpc = "rec" /\ Top(stack).at = "second"
    /\ \E r \in Answers(second_half_dict(Top(stack).cand), MinimizerResults) :
          /\ _test_chart_with_params_task(second_half_dict(Top(stack).cand), r)
          /\ IF r.status = "SUCCESS"
             THEN Continue(Call(SetTop(stack, "tail", <<>>),
                                second_half_dict(Top(stack).cand)))
             ELSE Continue([stack |-> SetTop(stack, "first", <<>>),
                            done |-> FALSE, value |-> <<>>])
    /\ minimize_returns
    /\ UNCHANGED <<svars, cvars>>
    /\ UNCHANGED <<detOracle, working_set, params, param_names, mIdx, post, probe, first_result>>

\* lines 393-419
find_minimal_first_half ==
    /\ mpc = "rec" /\ Top(stack).at = "first"
    /\ \E r \in Answers(first_half_dict(Top(stack).cand), MinimizerResults) :
          /\ _test_chart_with_params_task(first_half_dict(Top(stack).cand), r)
          /\ IF r.status = "SUCCESS"
             THEN Continue(Call(SetTop(stack, "tail", <<>>),
                                first_half_dict(Top(stack).cand)))
             ELSE Continue(Call(SetTop(stack, "recFirst", <<>>),
                                first_half_dict(Top(stack).cand)))
    /\ minimize_returns
    /\ UNCHANGED <<svars, cvars>>
    /\ UNCHANGED <<detOracle, working_set, params, param_names, mIdx, post, probe, first_result>>

\* lines 420-434
find_minimal_verify ==
    /\ mpc = "rec" /\ Top(stack).at = "verify"
    /\ \E r \in Answers(Top(stack).held, MinimizerResults) :
          /\ _test_chart_with_params_task(Top(stack).held, r)
          /\ Continue(Return(Pop(stack),
                             VerifyResult(r.status = "SUCCESS", Top(stack).held,
                                          Top(stack).cand)))
    /\ minimize_returns
    /\ UNCHANGED <<svars, cvars>>
    /\ UNCHANGED <<detOracle, working_set, params, param_names, mIdx, post, probe, first_result>>

(***************************************************************************)
(* _minimize_parameter_set_task.                                           *)
(***************************************************************************)
\* lines 447-448, mutated: a slice that loses the first parameter
SmallSetResultSliced(p) == Tail(p)

\* lines 447-448: one or two parameters are returned as they are
SmallSetResult(p) == p

\* line 462, mutated: the status string is tested for truth, not for SUCCESS
SingleSufficientTruthy(r) == r.status # ""

\* line 462
SingleSufficient(r) == r.status = "SUCCESS"

\* lines 443-455: the entry, up to the first validator call
minimize_enter ==
    /\ mpc = "enter"
    /\ IF params = <<>>
       THEN /\ mpc' = "done" /\ minimal_set' = <<>>
            /\ UNCHANGED <<param_names, mIdx>>
       ELSE IF Len(params) <= 2
       THEN /\ mpc' = "done" /\ minimal_set' = SmallSetResult(params)
            /\ UNCHANGED <<param_names, mIdx>>
       ELSE /\ mpc' = "singles" /\ param_names' = SortedKeys(params) /\ mIdx' = 1
            /\ UNCHANGED minimal_set
    /\ minimize_returns
    /\ UNCHANGED <<svars, cvars>>
    /\ UNCHANGED <<detOracle, known, oracleLog, working_set, params, stack, post, probe,
                   first_result>>

\* lines 458-473: one pass of the singles loop; after the last pass the
\* bisection is called with current_best_params = dict(params)
minimize_single ==
    /\ mpc = "singles"
    /\ LET test_params == Restrict(params, <<param_names[mIdx]>>) IN
       \E r \in Answers(test_params, MinimizerResults) :
          /\ _test_chart_with_params_task(test_params, r)
          /\ IF SingleSufficient(r)
             THEN /\ mpc' = "done" /\ minimal_set' = test_params
                  /\ UNCHANGED <<mIdx, stack>>
             ELSE IF mIdx < Len(param_names)
             THEN /\ mIdx' = mIdx + 1
                  /\ UNCHANGED <<mpc, stack, minimal_set>>
             ELSE /\ Continue(Call(<<>>, params))
                  /\ UNCHANGED mIdx
    /\ minimize_returns
    /\ UNCHANGED <<svars, cvars>>
    /\ UNCHANGED <<detOracle, working_set, params, param_names, post, probe, first_result>>

(***************************************************************************)
(* A direct call of the minimizer, and what is looked at afterwards.       *)
(***************************************************************************)
\* the parameters a directly minimized working set is drawn from
MinimizePool ==
    << <<"kubeVersion", "1.28.0">>,
       <<"global.security.allowInsecureImages", "True">>,
       <<"global.imageRegistry", "docker.io">>,
       <<"image.registry", "docker.io">>,
       <<"installCRDs", "True">>,
       <<"persistence.enabled", "False">> >>

PoolItems == {MinimizePool[i] : i \in 1..NKeys}

\* the dicts over the pool: every choice of parameters in every insertion order
RECURSIVE DictsUpTo(_)
DictsUpTo(n) ==
    IF n = 0 THEN {<<>>}
    ELSE LET S == DictsUpTo(n - 1) IN
         S \cup {Append(d, it) : d \in {x \in S : Len(x) = n - 1}, it \in PoolItems}

PoolDicts ==
    {d \in DictsUpTo(NKeys) : \A i, j \in DOMAIN d : i # j => d[i] # d[j]}

NoProbe == [parameters |-> <<>>, result |-> [status |-> "", category |-> ""]]

\* the caller has or has not seen the validator accept the working set
InitMinimize ==
    /\ detOracle \in BOOLEAN
    /\ working_set \in PoolDicts
    /\ params = working_set
    /\ \E verified \in BOOLEAN :
          known = IF detOracle /\ verified THEN (Items(working_set) :> SUCCESS) ELSE NothingKnown
    /\ oracleLog = <<>>
    /\ mpc = "enter"
    /\ param_names = <<>> /\ mIdx = 0 /\ stack = <<>> /\ minimal_set = None
    /\ post = "none" /\ probe = NoProbe /\ first_result = None
    /\ tpc = "none" /\ chart_info = None /\ solver_config = None
    /\ chart_results = NoneRecord /\ param_sets = <<>> /\ temp_dir = "none"
    /\ raised = None /\ task_result = NoneRecord
    /\ NoSolve /\ NoClassify

\* lines 437-478 again, on the set the first call returned (the validator being
\* deterministic: the second call is compared with the first)
minimize_again ==
    /\ detOracle /\ mpc = "done" /\ post = "none"
    /\ post' = "again"
    /\ first_result' = minimal_set
    /\ params' = minimal_set
    /\ mpc' = "enter"
    /\ param_names' = <<>> /\ mIdx' = 0 /\ minimal_set' = None
    /\ UNCHANGED <<detOracle, known, oracleLog, working_set, stack, probe>>
    /\ UNCHANGED <<tvars, svars, cvars>>

\* a fresh call of a deterministic validator, after the run, on some of the
\* working set's parameters
fresh_call ==
    /\ detOracle /\ mpc = "done" /\ post = "none"
    /\ \E T \in SUBSET Items(working_set) :
          LET p == SelectSeq(working_set, LAMBDA it : it \in T) IN
          \E r \in Answers(p, MinimizerResults) :
             /\ _test_chart_with_params_task(p, r)
             /\ probe' = [parameters |-> p, result |-> r]
    /\ post' = "probed"
    /\ UNCHANGED <<detOracle, mpc, working_set, params, param_names, mIdx, stack,
                   minimal_set, first_result>>
    /\ UNCHANGED <<tvars, svars, cvars>>

NextMinimize ==
    \/ minimize_enter
    \/ minimize_single
    \/ find_minimal_base
    \/ find_minimal_second_half
    \/ find_minimal_first_half
    \/ find_minimal_verify
    \/ minimize_again
    \/ fresh_call

SpecMinimize == InitMinimize /\ [][NextMinimize]_vars

(***************************************************************************)
(* The candidate generators.  A parameter matrix is the sequence of its    *)
(* (parameter, values) items; a value is kept as the text that             *)
(* f"{param}={value}" gives it.                                            *)
(***************************************************************************)
\* the number of parameters of a matrix, and of values of one parameter
NMatrix == 3

NValues == 2

target_registry == "docker.io"

\* lines 1156-1210: what _build_parameter_matrix returns
MATRIX ==
    << <<"kubeVersion",
         <<None, "1.13.0", "1.16.0", "1.19.0", "1.22.0", "1.25.0", "1.28.0">> >>,
       <<"registry", <<None, "{'insecure': True}", "{'insecure': False}">> >>,
       <<"persistence", <<None, "{'enabled': False}", "{'enabled': True}">> >>,
       <<"auth", <<None, "{'enabled': False}", "{'enabled': True}">> >>,
       <<"global", <<None, "{}", "{'imageRegistry': 'docker.io'}">> >>,
       <<"base_values", <<None, "{}", "{'fullnameOverride': 'release-name'}">> >> >>

Min(a, b) == IF a < b THEN a ELSE b

Max(a, b) == IF a < b THEN b ELSE a

RECURSIVE Concat(_)
Concat(ss) == IF ss = <<>> THEN <<>> ELSE Head(ss) \o Concat(Tail(ss))

\* the matrices a caller passes: the first n parameters of MATRIX, each with
\* its first v values
SubMatrix(n, v) ==
    Concat([i \in 1..Min(n, Len(MATRIX)) |->
               << <<MATRIX[i][1], SubSeq(MATRIX[i][2], 1, Min(v, Len(MATRIX[i][2])))>> >>])

NotNone(values) == SelectSeq(values, LAMBDA x : x # None)

\* lines 510-533
_create_all_params(parameter_matrix) ==
    Concat([i \in DOMAIN parameter_matrix |->
               IF NotNone(parameter_matrix[i][2]) = <<>> THEN <<>>
               ELSE << <<parameter_matrix[i][1], NotNone(parameter_matrix[i][2])[1]>> >>])

\* lines 541-554: the parameters that have a value other than None
processed_params(parameter_matrix) ==
    SelectSeq([i \in DOMAIN parameter_matrix |->
                  <<parameter_matrix[i][1], NotNone(parameter_matrix[i][2])>>],
              LAMBDA pv : pv[2] # <<>>)

\* {param: value} for every value of pv, with the items before put first
WithEach(before, pv) ==
    Concat([j \in DOMAIN pv[2] |-> << before \o << <<pv[1], pv[2][j]>> >> >>])

\* lines 536-575
_create_parameter_combinations(parameter_matrix) ==
    LET pp == processed_params(parameter_matrix)
        singles == Concat([i \in DOMAIN pp |-> WithEach(<<>>, pp[i])])
        kube == SelectSeq(pp, LAMBDA pv : pv[1] = "kubeVersion")
        rest == SelectSeq(pp, LAMBDA pv : pv[1] # "kubeVersion")
        pairs == IF kube = <<>> THEN <<>>
                 ELSE Concat([k \in DOMAIN kube[1][2] |->
                         Concat([i \in DOMAIN rest |->
                             WithEach(<< <<"kubeVersion", kube[1][2][k]>> >>, rest[i])])])
    IN singles \o pairs

\* combinations.sort(key=len): a stable sort
SortByLen(combinations) ==
    Concat([n \in 1..3 |-> SelectSeq(combinations, LAMBDA c : Len(c) = n - 1)])

\* s[:k] of Python, k of either sign
SliceTo(s, k) ==
    IF k >= 0 THEN SubSeq(s, 1, Min(k, Len(s))) ELSE SubSeq(s, 1, Max(0, Len(s) + k))

\* no category that categorize_error or a handler gives holds the text NOTES.txt
CategoriesWithNotesTxt == {}

components == <<"loki", "tempo", "postgresql", "redis", "mongodb", "grafana", "prometheus">>

\* lines 655-676: the combination of one component
ComponentCombination(component) ==
    CASE component = "loki" ->
             << << <<"kubeVersion", "1.28.0">>, <<"lokiAddress", "http://loki:3100">>,
                   <<"loki.storage.type", "filesystem">> >> >>
      [] component = "tempo" ->
             << << <<"kubeVersion", "1.28.0">>, <<"tempoAddress.push", "http://tempo:3200">>,
                   <<"tempoAddress.query", "http://tempo:3200">> >> >>
      [] component = "postgresql" ->
             << << <<"kubeVersion", "1.28.0">>, <<"global.postgresql.auth.enabled", "False">>,
                   <<"persistence.enabled", "False">> >> >>
      [] component = "redis" ->
             << << <<"kubeVersion", "1.28.0">>, <<"global.redis.auth.enabled", "False">>,
                   <<"persistence.enabled", "False">> >> >>
      [] component = "mongodb" ->
             << << <<"kubeVersion", "1.28.0">>, <<"global.mongodb.auth.enabled", "False">>,
                   <<"persistence.enabled", "False">> >> >>
      [] OTHER -> <<>>

\* lines 582-676: the combinations in the order they are appended
TargetedCandidates(chart_name, classification, provider, error_categories) ==
    LET tr == target_registry
        bitnami == << <<"kubeVersion", "1.28.0">>, <<"global.imageRegistry", tr>>,
                      <<"global.security.allowInsecureImages", "True">> >>
    IN (
          << << <<"kubeVersion", "1.23.0">> >>, << <<"kubeVersion", "1.25.0">> >>,
             << <<"kubeVersion", "1.27.0">> >>, << <<"kubeVersion", "1.28.0">> >>,
             << <<"global.imageRegistry", tr>> >>,
             << <<"image.registry", tr>> >>,
             << <<"image", "docker.io/placeholder:1.0.0">> >>,
             << <<"global.security.allowInsecureImages", "True">> >>,
             << <<"allowInsecureImages", "True">> >> >>
          \o (IF \E e \in Items(error_categories) : e \in CategoriesWithNotesTxt
              THEN << << <<"kubeVersion", "1.28.0">>, <<"persistence.enabled", "False">>,
                         <<"serviceAccount.create", "True">> >> >>
              ELSE <<>>)
          \o (IF "SCHEMA_ERROR" \in Items(error_categories)
              THEN << << <<"kubeVersion", "1.28.0">>, <<"installCRDs", "True">> >> >>
              ELSE <<>>)
          \o (IF provider = "bitnami" THEN <<bitnami>> ELSE <<>>)
          \o (CASE classification = "BITNAMI" -> <<bitnami>>
                [] classification = "STANDARD_MAP" ->
                       << << <<"kubeVersion", "1.28.0">>, <<"image.registry", tr>> >> >>
                [] classification = "STANDARD_STRING" ->
                       << << <<"kubeVersion", "1.28.0">>,
                             <<"image", "docker.io/placeholder:1.0.0">> >> >>
                [] OTHER -> <<>>)
          \o Concat([i \in DOMAIN components |->
                        IF components[i] \in Items(chart_name.words)
                        THEN ComponentCombination(components[i]) ELSE <<>>]))

\* lines 678-687: the first of the combinations that are equal as dicts is kept
RECURSIVE Deduplicate(_, _)
Deduplicate(combinations, seen) ==
    IF combinations = <<>> THEN <<>>
    ELSE IF Items(Head(combinations)) \in seen
    THEN Deduplicate(Tail(combinations), seen)
    ELSE <<Head(combinations)>>
         \o Deduplicate(Tail(combinations), seen \cup {Items(Head(combinations))})

\* lines 678-687, mutated: every combination is kept
_create_targeted_combinations_all(chart_name, classification, provider, error_categories) ==
    TargetedCandidates(chart_name, classification, provider, error_categories)

\* lines 578-687
_create_targeted_combinations(chart_name, classification, provider, error_categories) ==
    Deduplicate(TargetedCandidates(chart_name, classification, provider, error_categories),
                {})

(***************************************************************************)
(* _process_chart_task and the two strategy functions.  Every action is    *)
(* the code from one validator call up to the next.                        *)
(***************************************************************************)
\* the largest max_attempts_per_chart a caller passes
MaxBudget == 7

\* the charts: a name, the classification its Chart.yaml gives, and what
\* opening its archive does
Charts ==
    { [name |-> [slash |-> FALSE, words |-> <<"nginx">>],
       classification |-> "STANDARD", archive |-> "ok"],
      [name |-> [slash |-> TRUE, words |-> <<"bitnami", "redis">>],
       classification |-> "BITNAMI", archive |-> "ok"],
      [name |-> [slash |-> FALSE, words |-> <<"grafana", "loki">>],
       classification |-> "STANDARD", archive |-> "ok"],
      [name |-> [slash |-> FALSE, words |-> <<"nginx">>],
       classification |-> "STANDARD", archive |-> "ReadError"],
      [name |-> [slash |-> FALSE, words |-> <<"nginx">>],
       classification |-> "STANDARD", archive |-> "FileNotFoundError"] }

Configs ==
    { [strategy |-> st, parameter_matrix |-> SubMatrix(n, v), max_attempts_per_chart |-> b] :
         st \in {"binary", "exhaustive", "simple"}, n \in 0..NMatrix, v \in 1..NValues,
         b \in 0..MaxBudget }

\* lines 789-797, mutated: the Attempt does not record the success of the call
AttemptFailed(p, r) ==
    [parameters |-> p, success |-> FALSE, error_category |-> r.category]

\* lines 789-797: the Attempt of one validator call
Attempt(p, r) ==
    [parameters |-> p, success |-> r.status = "SUCCESS",
     error_category |-> IF r.status # "SUCCESS" THEN r.category ELSE None]

\* lines 805-806, mutated: the category is added again
TrackCategoryAgain(cats, r) == Append(cats, r.category)

\* lines 805-806: the category is added if it is new
TrackCategory(cats, r) ==
    IF r.category \in Items(cats) THEN cats ELSE Append(cats, r.category)

\* lines 789-797, mutated: the Attempt is put at the head of the list
AttemptedAtHead(cr, p, r) == [cr EXCEPT !.attempts = <<Attempt(p, r)>> \o @]

\* lines 789-797, and the same at 813, 833, 869, 985 and 1013: attempts.append
Attempted(cr, p, r) == [cr EXCEPT !.attempts = Append(@, Attempt(p, r))]

Tracked(cr, r) == [cr EXCEPT !.error_categories = TrackCategory(@, r)]

\* lines 841-847: the strategy function calls the minimizer on p
call_minimize(cr, p) ==
    /\ tpc' = "minimize" /\ chart_results' = cr
    /\ params' = p /\ working_set' = p /\ mpc' = "enter"
    /\ UNCHANGED <<param_names, mIdx, stack, minimal_set>>
    /\ UNCHANGED <<chart_info, solver_config, temp_dir, raised, task_result>>

\* lines 859-864, mutated: the loop goes on from the last combination
targeted_loop_from_last(cr, sets) ==
    /\ param_sets' = IF sets = <<>> THEN sets ELSE <<sets[Len(sets)]>> \o Pop(sets)
    /\ IF sets = <<>> \/ Len(cr.attempts) >= solver_config.max_attempts_per_chart
       THEN task_return(cr)
       ELSE /\ tpc' = "targeted" /\ chart_results' = cr
            /\ UNCHANGED <<chart_info, solver_config, temp_dir, raised, task_result>>

\* lines 859-864 and 892-895: the head of the loop over the targeted
\* combinations, which ends the function when the budget is used up
targeted_loop(cr, sets) ==
    /\ param_sets' = sets
    /\ IF sets = <<>> \/ Len(cr.attempts) >= solver_config.max_attempts_per_chart
       THEN task_return(cr)
       ELSE /\ tpc' = "targeted" /\ chart_results' = cr
            /\ UNCHANGED <<chart_info, solver_config, temp_dir, raised, task_result>>

\* lines 1009 and 1038-1041: the head of the loop over the combinations
exhaustive_loop(cr, sets) ==
    /\ param_sets' = sets
    /\ IF sets = <<>>
       THEN task_return(cr)
       ELSE /\ tpc' = "exhaustive" /\ chart_results' = cr
            /\ UNCHANGED <<chart_info, solver_config, temp_dir, raised, task_result>>

\* lines 1047-1095 with 690-786 (903-979): the dispatch, the temporary
\* directory and the extraction, up to the baseline call
process_chart_task ==
    /\ tpc = "start"
    /\ \E mkdtemp \in {"ok", "OSError"} :
          IF mkdtemp = "OSError"
          THEN /\ tpc' = "done" /\ raised' = "OSError"
               /\ task_result' = ProcessingError(chart_info.name, "OSError")
               /\ UNCHANGED <<chart_info, solver_config, chart_results, param_sets, temp_dir>>
          ELSE IF chart_info.archive # "ok"
          THEN /\ tpc' = "done"
               /\ \E rmtree \in {"removed", "OSError"} :
                     /\ temp_dir' = IF rmtree = "removed" THEN "removed" ELSE "exists"
                     /\ raised' = IF rmtree = "OSError" THEN "OSError" ELSE None
                     /\ task_result' = IF rmtree = "OSError"
                                       THEN ProcessingError(chart_info.name, "OSError")
                                       ELSE ExtractionError(chart_info.name)
               /\ UNCHANGED <<chart_info, solver_config, chart_results, param_sets>>
          ELSE /\ temp_dir' = "exists" /\ tpc' = "baseline"
               /\ chart_results' =
                     [classification |-> chart_info.classification,
                      provider |-> _extract_provider(chart_info.name),
                      attempts |-> <<>>, minimal_success_params |-> NoneParams,
                      error_categories |-> <<>>]
               /\ UNCHANGED <<chart_info, solver_config, param_sets, raised, task_result>>
    /\ UNCHANGED <<mvars, svars, cvars>>

\* lines 788-802 (981-998), and for the exhaustive strategy lines 1000-1007
task_baseline ==
    /\ tpc = "baseline"
    /\ \E r \in Answers(<<>>, TestResults) :
          /\ _test_chart_with_params_task(<<>>, r)
          /\ LET cr == Attempted(chart_results, <<>>, r) IN
             IF r.status = "SUCCESS"
             THEN /\ task_return([cr EXCEPT !.minimal_success_params = <<>>])
                  /\ UNCHANGED param_sets
             ELSE IF solver_config.strategy = "exhaustive"
             THEN exhaustive_loop(
                     Tracked(cr, r),
                     SliceTo(SortByLen(_create_parameter_combinations(
                                           solver_config.parameter_matrix)),
                             solver_config.max_attempts_per_chart - 1))
             ELSE /\ tpc' = "kube" /\ chart_results' = Tracked(cr, r)
                  /\ UNCHANGED <<chart_info, solver_config, param_sets, temp_dir, raised,
                                 task_result>>
    /\ UNCHANGED <<detOracle, mpc, working_set, params, param_names, mIdx, stack,
                   minimal_set, post, probe, first_result>>
    /\ UNCHANGED <<svars, cvars>>

\* lines 808-826
task_kube ==
    /\ tpc = "kube"
    /\ LET kube_params == << <<"kubeVersion", "1.28.0">> >> IN
       \E r \in Answers(kube_params, TestResults) :
          /\ _test_chart_with_params_task(kube_params, r)
          /\ LET cr == Attempted(chart_results, kube_params, r) IN
             IF r.status = "SUCCESS"
             THEN task_return([cr EXCEPT !.minimal_success_params = kube_params])
             ELSE /\ tpc' = "all" /\ chart_results' = cr
                  /\ UNCHANGED <<chart_info, solver_config, temp_dir, raised, task_result>>
    /\ UNCHANGED param_sets
    /\ UNCHANGED <<detOracle, mpc, working_set, params, param_names, mIdx, stack,
                   minimal_set, post, probe, first_result>>
    /\ UNCHANGED <<svars, cvars>>

\* lines 828-857
task_all ==
    /\ tpc = "all"
    /\ LET all_params == _create_all_params(solver_config.parameter_matrix) IN
       \E r \in Answers(all_params, TestResults) :
          /\ _test_chart_with_params_task(all_params, r)
          /\ LET cr == Attempted(chart_results, all_params, r) IN
             IF r.status = "SUCCESS"
             THEN call_minimize(cr, all_params) /\ UNCHANGED param_sets
             ELSE /\ targeted_loop(cr, _create_targeted_combinations(
                                          chart_info.name, cr.classification, cr.provider,
                                          cr.error_categories))
                  /\ UNCHANGED <<mpc, working_set, params, param_names, mIdx, stack,
                                 minimal_set>>
    /\ UNCHANGED <<detOracle, post, probe, first_result>>
    /\ UNCHANGED <<svars, cvars>>

\* lines 859-895: one turn of the loop over the targeted combinations
task_targeted ==
    /\ tpc = "targeted"
    /\ \E r \in Answers(Head(param_sets), TestResults) :
          /\ _test_chart_with_params_task(Head(param_sets), r)
          /\ LET cr == Attempted(chart_results, Head(param_sets), r) IN
             IF r.status = "SUCCESS"
             THEN call_minimize(cr, Head(param_sets)) /\ UNCHANGED param_sets
             ELSE /\ targeted_loop(Tracked(cr, r), Tail(param_sets))
                  /\ UNCHANGED <<mpc, working_set, params, param_names, mIdx, stack,
                                 minimal_set>>
    /\ UNCHANGED <<detOracle, post, probe, first_result>>
    /\ UNCHANGED <<svars, cvars>>

\* lines 1009-1041: one turn of the loop over the combinations
task_exhaustive ==
    /\ tpc = "exhaustive"
    /\ \E r \in Answers(Head(param_sets), TestResults) :
          /\ _test_chart_with_params_task(Head(param_sets), r)
          /\ LET cr == Attempted(chart_results, Head(param_sets), r) IN
             IF r.status = "SUCCESS"
             THEN call_minimize(cr, Head(param_sets)) /\ UNCHANGED param_sets
             ELSE /\ exhaustive_loop(Tracked(cr, r), Tail(param_sets))
                  /\ UNCHANGED <<mpc, working_set, params, param_names, mIdx, stack,
                                 minimal_set>>
    /\ UNCHANGED <<detOracle, post, probe, first_result>>
    /\ UNCHANGED <<svars, cvars>>

\* a fresh call of a deterministic validator, after the task, on the
\* minimal_success_params of the record
fresh_call_minimal ==
    /\ detOracle /\ tpc = "done" /\ post = "none"
    /\ task_result.minimal_success_params # NoneParams
    /\ \E r \in Answers(task_result.minimal_success_params, TestResults) :
          /\ _test_chart_with_params_task(task_result.minimal_success_params, r)
          /\ probe' = [parameters |-> task_result.minimal_success_params, result |-> r]
    /\ post' = "probed"
    /\ UNCHANGED <<detOracle, mpc, working_set, params, param_names, mIdx, stack,
                   minimal_set, first_result>>
    /\ UNCHANGED <<tvars, svars, cvars>>

InitTask ==
    /\ detOracle \in BOOLEAN
    /\ known = NothingKnown /\ oracleLog = <<>>
    /\ mpc = "idle" /\ working_set = <<>> /\ params = <<>>
    /\ param_names = <<>> /\ mIdx = 0 /\ stack = <<>> /\ minimal_set = None
    /\ post = "none" /\ probe = NoProbe /\ first_result = None
    /\ tpc = "start"
    /\ chart_info \in Charts
    /\ solver_config \in Configs
    /\ chart_results = NoneRecord /\ param_sets = <<>> /\ temp_dir = "none"
    /\ raised = None /\ task_result = NoneRecord
    /\ NoSolve /\ NoClassify

NextTask ==
    \/ process_chart_task
    \/ task_baseline
    \/ task_kube
    \/ task_all
    \/ task_targeted
    \/ task_exhaustive
    \/ minimize_enter
    \/ minimize_single
    \/ find_minimal_base
    \/ find_minimal_second_half
    \/ find_minimal_first_half
    \/ find_minimal_verify
    \/ fresh_call_minimal

SpecTask == InitTask /\ [][NextTask]_vars

(***************************************************************************)
(* ChartSolver.solve.  A path is the sequence of its components, the       *)
(* suffix .tgz left out; an element of chart_paths is a Path or a str, and *)
(* carries what processing that chart does (the environment of the run,    *)
(* the same whenever the chart is processed):                              *)
(*   "found"   the worker returns a record with a minimal set              *)
(*   "error"   the worker boundary returns the record of an exception      *)
(*   "raises"  future.result() raises: the worker process died             *)
(* A dict of results is the sequence of its (key, record) items.           *)
(***************************************************************************)
\* the number of charts, the largest checkpoint_interval and max_workers
NTargets == 3

MaxInterval == 2

MaxWorkers == 2

\* str(Path(text)): pathlib drops the components "."
Normalize(parts) == SelectSeq(parts, LAMBDA c : c # ".")

\* str(p) of an element of chart_paths: a Path is normalized when it is made
StrOf(p) == IF p.type = "Path" THEN Normalize(p.parts) ELSE p.parts

\* lines 1254-1258: Path(chart_path)
PathOf(p) == [p EXCEPT !.type = "Path", !.parts = Normalize(p.parts)]

\* line 1259: chart_path.stem
Stem(p) == [slash |-> FALSE, words |-> <<p.parts[Len(p.parts)]>>]

\* d[k] = v
Put(d, k, v) ==
    IF k \in KeySet(d)
    THEN List([i \in DOMAIN d |-> IF d[i][1] = k THEN <<k, v>> ELSE d[i]])
    ELSE Append(d, <<k, v>>)

\* lines 788-826: the record of a chart whose baseline fails the schema and
\* which validates with kubeVersion 1.28.0 (two runs of the validator)
FoundRecord(chart_name) ==
    LET kube_params == << <<"kubeVersion", "1.28.0">> >>
        cr == [classification |-> "STANDARD", provider |-> _extract_provider(chart_name),
               attempts |-> <<>>, minimal_success_params |-> NoneParams,
               error_categories |-> <<>>]
    IN  [Attempted(Tracked(Attempted(cr, <<>>, VALIDATE_SCHEMA), VALIDATE_SCHEMA),
                   kube_params, SUCCESS)
           EXCEPT !.minimal_success_params = kube_params]

\* lines 291-357 and 1086-1095: what the worker of the submitted chart p ends
\* with.  With a deterministic validator and environment it is what the chart
\* does whenever it is processed; otherwise the task may also end in the
\* record of an exception
Outcomes(p) == IF detOracle THEN {p.does} ELSE {p.does, "error"}

\* the runs of the validator the worker of p makes
WorkerCalls(p) == IF p.does = "found" THEN 2 ELSE 0

\* what _process_chart_task returns for the submitted chart p
WorkerRecord(p) ==
    IF p.does = "found" THEN FoundRecord(Stem(p)) ELSE ProcessingError(Stem(p), "OSError")

\* lines 1328-1333
ErrorRecord(e) == [status |-> "ERROR", error |-> e]

(***************************************************************************)
(* json.dump and json.load of a result map: None is null, True and False   *)
(* are true and false.                                                     *)
(***************************************************************************)
JsonAtom(x) ==
    CASE x = None -> "null" [] x = "True" -> "true" [] x = "False" -> "false" [] OTHER -> x

PyAtom(x) ==
    CASE x = "null" -> None [] x = "true" -> "True" [] x = "false" -> "False" [] OTHER -> x

JsonNull == << <<"null", "null">> >>

JsonParams(p) ==
    IF p = NoneParams THEN JsonNull
    ELSE List([i \in DOMAIN p |-> <<p[i][1], JsonAtom(p[i][2])>>])

PyParams(j) ==
    IF j = JsonNull THEN NoneParams
    ELSE List([i \in DOMAIN j |-> <<j[i][1], PyAtom(j[i][2])>>])

JsonAttempt(a) ==
    [parameters |-> JsonParams(a.parameters),
     success |-> IF a.success THEN "true" ELSE "false",
     error_category |-> JsonAtom(a.error_category)]

PyAttempt(j) ==
    [parameters |-> PyParams(j.parameters),
     success |-> j.success = "true",
     error_category |-> PyAtom(j.error_category)]

JsonRecord(rec) ==
    IF "status" \in DOMAIN rec THEN rec
    ELSE [rec EXCEPT !.provider = JsonAtom(@),
                     !.minimal_success_params = JsonParams(@),
                     !.attempts = List([i \in DOMAIN @ |-> JsonAttempt(@[i])])]

PyRecord(j) ==
    IF "status" \in DOMAIN j THEN j
    ELSE [j EXCEPT !.provider = PyAtom(@),
                   !.minimal_success_params = PyParams(@),
                   !.attempts = List([i \in DOMAIN @ |-> PyAttempt(@[i])])]

\* json.dump(self.results, f, indent=2)
JsonDump(d) == List([i \in DOMAIN d |-> <<d[i][1], JsonRecord(d[i][2])>>])

\* json.load(f)
JsonLoad(j) == List([i \in DOMAIN j |-> <<j[i][1], PyRecord(j[i][2])>>])

\* lines 1348-1361: a file that does not hold a whole JSON text raises in
\* json.load, and the exception is logged
_load_checkpoint(file) ==
    IF file.exists /\ file.complete THEN JsonLoad(file.json) ELSE <<>>

(***************************************************************************)
(* The runs of solve.  Three processes run one after the other on the same *)
(* chart_paths: a reference run that is not interrupted and starts with no *)
(* checkpoint file, a first run that starts with no checkpoint file and    *)
(* may be stopped at any step, and a resumed run that starts with the file *)
(* the first run left.                                                     *)
(***************************************************************************)
TargetPool ==
    << [type |-> "Path", parts |-> <<"charts", "nginx">>, does |-> "found"],
       [type |-> "str", parts |-> <<".", "charts", "redis">>, does |-> "found"],
       [type |-> "Path", parts |-> <<"charts", "loki">>, does |-> "error"],
       [type |-> "str", parts |-> <<"charts", "kong">>, does |-> "found"] >>

\* lines 1107-1143: a new process constructs the solver
NewSolver ==
    /\ results' = <<>> /\ loaded' = <<>> /\ submitted' = <<>> /\ futures' = <<>>
    /\ calls' = <<>> /\ fIdx' = 0 /\ processed_count' = 0 /\ after' = "none"
    /\ last_step' = "none" /\ spc' = "start"

SolveStart ==
    /\ known = NothingKnown /\ oracleLog = <<>>
    /\ mpc = "idle" /\ working_set = <<>> /\ params = <<>>
    /\ param_names = <<>> /\ mIdx = 0 /\ stack = <<>> /\ minimal_set = None
    /\ post = "none" /\ probe = NoProbe /\ first_result = None
    /\ tpc = "none" /\ chart_info = None /\ solver_config = None
    /\ chart_results = NoneRecord /\ param_sets = <<>> /\ temp_dir = "none"
    /\ raised = None /\ task_result = NoneRecord
    /\ spc = "start"
    /\ \E a \in 1..Min(NTargets, Len(TargetPool)) + 1 :
       \E b \in a - 1..Min(NTargets, Len(TargetPool)) :
          chart_paths = SubSeq(TargetPool, a, b)
    /\ solver \in [max_workers : 1..MaxWorkers, checkpoint_interval : 0..MaxInterval,
                   output_file : {None, "report.json"}, irr_exists : BOOLEAN]
    /\ checkpoint = Absent /\ replaced = Absent
    /\ results = <<>> /\ loaded = <<>> /\ submitted = <<>> /\ futures = <<>> /\ calls = <<>>
    /\ fIdx = 0 /\ processed_count = 0 /\ after = "none" /\ last_step = "none"
    /\ stopped_at = [spc |-> "none", last_step |-> "none"] /\ reference = <<>>
    /\ NoClassify

InitSolve == detOracle = TRUE /\ run = "reference" /\ SolveStart

\* lines 1229-1230, mutated: the loaded map is not made the result map
ResumeResultsDropped(loaded_checkpoint) == <<>>

\* lines 1229-1230: self.results = loaded_checkpoint
ResumeResults(loaded_checkpoint) == loaded_checkpoint

\* lines 1232-1240: the charts whose str(p) is no key of the loaded map
Remaining(paths, loaded_checkpoint) ==
    SelectSeq(paths, LAMBDA p : StrOf(p) \notin KeySet(loaded_checkpoint))

\* lines 1227-1298: the checkpoint is loaded, the charts filtered and the
\* remaining ones submitted
solve_enter ==
    /\ spc = "start"
    /\ LET loaded_checkpoint == _load_checkpoint(checkpoint)
           todo == IF loaded_checkpoint # <<>>
                   THEN Remaining(chart_paths, loaded_checkpoint) ELSE chart_paths
       IN /\ loaded' = loaded_checkpoint
          /\ results' = IF loaded_checkpoint # <<>>
                        THEN ResumeResults(loaded_checkpoint) ELSE results
          /\ IF todo = <<>> \/ ~solver.irr_exists
             THEN /\ spc' = "returned"
                  /\ UNCHANGED <<submitted, futures, calls, fIdx>>
             ELSE /\ spc' = "collect"
                  /\ submitted' = List([i \in DOMAIN todo |-> PathOf(todo[i])])
                  /\ futures' = List([i \in DOMAIN todo |-> "pending"])
                  /\ calls' = List([i \in DOMAIN todo |-> 0])
                  /\ fIdx' = 1
    /\ last_step' = "enter"
    /\ UNCHANGED <<run, chart_paths, solver, checkpoint, replaced, processed_count, after,
                   stopped_at, reference>>
    /\ UNCHANGED <<mvars, tvars, cvars>>

\* lines 1047-1095, mutated: the task writes its record into the checkpoint file
worker_finish_saving ==
    /\ spc \in {"collect", "save", "dump"}
    /\ \E i \in DOMAIN futures :
          /\ futures[i] = "pending"
          /\ Cardinality({j \in 1..i - 1 : futures[j] = "pending"}) < solver.max_workers
          /\ futures' = [futures EXCEPT ![i] = "done"]
          /\ \E does \in Outcomes(submitted[i]) :
                submitted' = [submitted EXCEPT ![i].does = does]
          /\ calls' = [calls EXCEPT ![i] = WorkerCalls(submitted'[i])]
          /\ checkpoint' = [exists |-> TRUE, complete |-> TRUE,
                            json |-> JsonDump(Put(results, StrOf(submitted[i]),
                                                  WorkerRecord(submitted'[i])))]
    /\ UNCHANGED <<run, spc, chart_paths, solver, replaced, results, loaded,
                   fIdx, processed_count, after, last_step, stopped_at, reference>>
    /\ UNCHANGED <<mvars, tvars, cvars>>

\* lines 1282-1298: the pool runs the submitted tasks in order on max_workers
\* processes; the task of chart i runs to its end
worker_finish ==
    /\ spc \in {"collect", "save", "dump"}
    /\ \E i \in DOMAIN futures :
          /\ futures[i] = "pending"
          /\ Cardinality({j \in 1..i - 1 : futures[j] = "pending"}) < solver.max_workers
          /\ futures' = [futures EXCEPT ![i] = "done"]
          /\ \E does \in Outcomes(submitted[i]) :
                submitted' = [submitted EXCEPT ![i].does = does]
          /\ calls' = [calls EXCEPT ![i] = WorkerCalls(submitted'[i])]
    /\ UNCHANGED <<run, spc, chart_paths, solver, checkpoint, replaced, results, loaded,
                   fIdx, processed_count, after, last_step, stopped_at, reference>>
    /\ UNCHANGED <<mvars, tvars, cvars>>

\* where solve goes on after a checkpoint save
AfterSave(a) == IF a = "final" THEN "save" ELSE a

\* lines 1335-1336, mutated: no save after the last target
AfterCollectNoSave(more) == IF more THEN "collect" ELSE "report"

\* lines 1301 and 1335-1336: the loop goes on with the next future, and is
\* followed by the final _save_checkpoint
AfterCollect(more) == IF more THEN "collect" ELSE "save"

\* lines 1301-1336: the result of the next future, in submission order, is
\* merged; a checkpoint_interval of 0 raises ZeroDivisionError in the try
\* block, and the handler overwrites the record
solve_collect ==
    /\ spc = "collect"
    /\ futures[fIdx] = "done"
    /\ LET chart_path == submitted[fIdx]
           chart_key == StrOf(chart_path)
           merged == Put(results, chart_key, WorkerRecord(chart_path))
           count == processed_count + 1
           more == fIdx < Len(submitted)
       IN /\ processed_count' = count
          /\ IF solver.checkpoint_interval = 0
             THEN /\ results' = Put(merged, chart_key,
                                    ErrorRecord("integer division or modulo by zero"))
                  /\ spc' = AfterCollect(more)
                  /\ after' = IF more THEN after ELSE "report"
             ELSE /\ results' = merged
                  /\ IF count % solver.checkpoint_interval = 0
                     THEN spc' = "save" /\ after' = IF more THEN "collect" ELSE "final"
                     ELSE /\ spc' = AfterCollect(more)
                          /\ after' = IF more THEN after ELSE "report"
    /\ fIdx' = fIdx + 1
    /\ last_step' = "collect"
    /\ UNCHANGED <<run, chart_paths, solver, checkpoint, replaced, loaded, submitted,
                   futures, calls, stopped_at, reference>>
    /\ UNCHANGED <<mvars, tvars, cvars>>

\* line 1366: open(self.checkpoint_path, "w") truncates the file; an OSError
\* is logged and the file is left as it was
save_open ==
    /\ spc = "save"
    /\ \E opened \in BOOLEAN :
          IF opened
          THEN /\ replaced' = checkpoint
               /\ checkpoint' = [exists |-> TRUE, complete |-> FALSE, json |-> <<>>]
               /\ spc' = "dump"
               /\ UNCHANGED <<after, last_step>>
          ELSE /\ spc' = AfterSave(after)
               /\ after' = IF after = "final" THEN "report" ELSE after
               /\ last_step' = "save failed"
               /\ UNCHANGED <<checkpoint, replaced>>
    /\ UNCHANGED <<run, chart_paths, solver, results, loaded, submitted, futures, calls,
                   fIdx, processed_count, stopped_at, reference>>
    /\ UNCHANGED <<mvars, tvars, cvars>>

\* line 1367: json.dump writes the map into the open file; an OSError is
\* logged and leaves what was written so far
save_dump ==
    /\ spc = "dump"
    /\ \E written \in BOOLEAN :
          IF written
          THEN /\ checkpoint' = [exists |-> TRUE, complete |-> TRUE, json |-> JsonDump(results)]
               /\ last_step' = "save"
          ELSE /\ last_step' = "save failed"
               /\ UNCHANGED checkpoint
    /\ spc' = AfterSave(after)
    /\ after' = IF after = "final" THEN "report" ELSE after
    /\ UNCHANGED <<run, chart_paths, solver, replaced, results, loaded, submitted, futures,
                   calls, fIdx, processed_count, stopped_at, reference>>
    /\ UNCHANGED <<mvars, tvars, cvars>>

\* lines 1399-1404: .items() of the list error_categories of a worker record
ReportRaises(d) == \E i \in DOMAIN d : "error_categories" \in DOMAIN d[i][2]

\* lines 1338-1346 with 1372-1409
solve_report ==
    /\ spc = "report"
    /\ spc' = IF solver.output_file # None /\ ReportRaises(results)
              THEN "raised" ELSE "returned"
    /\ UNCHANGED <<run, chart_paths, solver, checkpoint, replaced, results, loaded,
                   submitted, futures, calls, fIdx, processed_count, after, last_step,
                   stopped_at, reference>>
    /\ UNCHANGED <<mvars, tvars, cvars>>

\* the process of the first run is stopped between two steps
stop ==
    /\ run = "first"
    /\ spc \in {"collect", "save", "dump", "report"}
    /\ stopped_at' = [spc |-> spc, last_step |-> last_step]
    /\ spc' = "stopped"
    /\ UNCHANGED <<run, chart_paths, solver, checkpoint, replaced, results, loaded,
                   submitted, futures, calls, fIdx, processed_count, after, last_step,
                   reference>>
    /\ UNCHANGED <<mvars, tvars, cvars>>

\* the reference run has ended; the first run starts as the reference run did
start_first ==
    /\ run = "reference"
    /\ spc \in {"returned", "raised"}
    /\ reference' = results
    /\ run' = "first"
    /\ checkpoint' = Absent /\ replaced' = Absent
    /\ NewSolver
    /\ UNCHANGED <<chart_paths, solver, stopped_at>>
    /\ UNCHANGED <<mvars, tvars, cvars>>

\* the first run has ended or was stopped; solve is run again on the same
\* chart_paths with the checkpoint file as it is
start_resumed ==
    /\ run = "first"
    /\ spc \in {"returned", "raised", "stopped"}
    /\ run' = "resumed"
    /\ stopped_at' = IF spc = "stopped" THEN stopped_at
                     ELSE [spc |-> spc, last_step |-> last_step]
    /\ NewSolver
    /\ UNCHANGED <<chart_paths, solver, checkpoint, replaced, reference>>
    /\ UNCHANGED <<mvars, tvars, cvars>>

NextSolve ==
    \/ solve_enter
    \/ worker_finish
    \/ solve_collect
    \/ save_open
    \/ save_dump
    \/ solve_report
    \/ stop
    \/ start_first
    \/ start_resumed

SpecSolve == InitSolve /\ [][NextSolve]_vars

(***************************************************************************)
(* A run of solve and the run that resumes it, with a validator and an     *)
(* environment that need not act the same each time a chart is processed.  *)
(***************************************************************************)
InitResume == detOracle = FALSE /\ run = "first" /\ SolveStart

NextResume ==
    \/ solve_enter
    \/ worker_finish
    \/ solve_collect
    \/ save_open
    \/ save_dump
    \/ solve_report
    \/ stop
    \/ start_resumed

SpecResume == InitResume /\ [][NextResume]_vars

(***************************************************************************)
(* Termination.  The runs of a worker on a chart with the whole parameter  *)
(* matrix, of the minimizer called directly and of solve, the validator    *)
(* giving any answer at every call.  Every validator call returns and the  *)
(* interpreter and the process pool go on with the next step whenever      *)
(* there is one: a step that can be taken is taken.  Stopping the process  *)
(* of the first run from outside stays possible.                           *)
(***************************************************************************)
InitTermination ==
    \/ /\ InitTask
       /\ ~detOracle
       /\ solver_config.parameter_matrix = SubMatrix(NMatrix, NValues)
    \/ InitMinimize
    \/ InitSolve

NextTermination ==
    \/ process_chart_task
    \/ task_baseline
    \/ task_kube
    \/ task_all
    \/ task_targeted
    \/ task_exhaustive
    \/ minimize_enter
    \/ minimize_single
    \/ find_minimal_base
    \/ find_minimal_second_half
    \/ find_minimal_first_half
    \/ find_minimal_verify
    \/ solve_enter
    \/ worker_finish
    \/ solve_collect
    \/ save_open
    \/ save_dump
    \/ solve_report
    \/ stop
    \/ start_first
    \/ start_resumed

SpecTermination ==
    InitTermination /\ [][NextTermination]_vars /\ WF_vars(NextTermination)

(***************************************************************************)
(* categorize_error.  A text is a string; "pattern in text" is the test    *)
(* for a substring, and lower() maps the letters A-Z to a-z.               *)
(***************************************************************************)
ascii_uppercase == "ABCDEFGHIJKLMNOPQRSTUVWXYZ"

ascii_lowercase == "abcdefghijklmnopqrstuvwxyz"

\* str.lower of one character
LowerChar(c) ==
    IF \E i \in 1..Len(ascii_uppercase) : SubSeq(ascii_uppercase, i, i) = c
    THEN LET i == CHOOSE i \in 1..Len(ascii_uppercase) : SubSeq(ascii_uppercase, i, i) = c
         IN  SubSeq(ascii_lowercase, i, i)
    ELSE c

RECURSIVE lower(_)
\* line 75: error_msg.lower()
lower(text) ==
    IF Len(text) <= 1 THEN LowerChar(text)
    ELSE lower(SubSeq(text, 1, Len(text) \div 2))
            \o lower(SubSeq(text, Len(text) \div 2 + 1, Len(text)))

\* pattern in text
In(pattern, text) ==
    \E i \in 1..Len(text) - Len(pattern) + 1 :
       SubSeq(text, i, i + Len(pattern) - 1) = pattern

\* any(pattern in text for pattern in patterns)
AnyIn(patterns, text) == \E k \in DOMAIN patterns : In(patterns[k], text)

\* lines 78-88
kube_version_patterns ==
    << "version constraint", "kube version", "kubernetes version", "not compatible with",
       "incompatible version" >>

\* lines 91-103
required_value_patterns ==
    << "required value", "required field", "value is required", "cannot be empty",
       "must be set", "is required", "missing required field" >>

\* lines 106-116
yaml_patterns ==
    << "failed to parse", "yaml:", "json:", "invalid yaml syntax", "unable to parse yaml" >>

\* lines 119-130
schema_patterns ==
    << "schema(s)", "don't meet the specifications", "validation failed",
       "schema validation", "specifications of the schema", "invalid schema" >>

\* lines 133-143
coalesce_patterns ==
    << "wrong type for value", "coalesce.go", "destination for", "expected type",
       "cannot merge" >>

\* lines 146-157
registry_patterns ==
    << "image registry", "cannot pull image", "registry", "repository", "docker.io",
       "image pull" >>

\* lines 160-164
storage_patterns == << "persistence", "storage", "volume", "pvc", "storageclass" >>

\* lines 167-178
auth_patterns ==
    << "auth", "authentication", "credentials", "password", "secret", "access denied" >>

\* lines 181-191
crd_patterns ==
    << "crd", "custom resource", "installcrds", "apiversion", "resource definition" >>

\* lines 194-205
template_patterns ==
    << "template", "rendering", "render", "execution error", "template error",
       "template failed" >>

\* line 208
library_patterns == << "library charts are not installable" >>

\* line 212
deprecated_patterns == << "chart is deprecated" >>

\* lines 216-220
timeout_patterns == << "timeout", "timed out", "deadline exceeded" >>

\* lines 223-227
config_patterns == << "configuration", "config", "not valid", "invalid configuration" >>

\* lines 67-234, mutated: the storage rule is tried before the required-value rule
categorize_error_storage_first(error_msg) ==
    IF error_msg = "" THEN "UNKNOWN_ERROR"
    ELSE LET error_msg_lower == lower(error_msg) IN
         IF AnyIn(kube_version_patterns, error_msg_lower) THEN "KUBE_VERSION_ERROR"
         ELSE IF AnyIn(storage_patterns, error_msg_lower) THEN "STORAGE_ERROR"
         ELSE IF AnyIn(required_value_patterns, error_msg_lower) THEN "REQUIRED_VALUE_ERROR"
         ELSE IF AnyIn(yaml_patterns, error_msg_lower) THEN "YAML_ERROR"
         ELSE IF AnyIn(schema_patterns, error_msg_lower) THEN "SCHEMA_ERROR"
         ELSE IF AnyIn(coalesce_patterns, error_msg_lower) THEN "COALESCE_ERROR"
         ELSE IF AnyIn(registry_patterns, error_msg_lower) THEN "REGISTRY_ERROR"
         ELSE IF AnyIn(auth_patterns, error_msg_lower) THEN "AUTH_ERROR"
         ELSE IF AnyIn(crd_patterns, error_msg_lower) THEN "CRD_ERROR"
         ELSE IF AnyIn(template_patterns, error_msg_lower) THEN "TEMPLATE_ERROR"
         ELSE IF AnyIn(library_patterns, error_msg_lower) THEN "LIBRARY_ERROR"
         ELSE IF AnyIn(deprecated_patterns, error_msg_lower) THEN "DEPRECATED_ERROR"
         ELSE IF AnyIn(timeout_patterns, error_msg_lower) THEN "TIMEOUT_ERROR"
         ELSE IF AnyIn(config_patterns, error_msg_lower) THEN "CONFIG_ERROR"
         ELSE IF In("error", error_msg_lower) \/ In("failed", error_msg_lower)
         THEN "UNKNOWN_ERROR"
         ELSE "UNKNOWN_ERROR"

\* lines 67-234
categorize_error(error_msg) ==
    IF error_msg = "" THEN "UNKNOWN_ERROR"
    ELSE LET error_msg_lower == lower(error_msg) IN
         IF AnyIn(kube_version_patterns, error_msg_lower) THEN "KUBE_VERSION_ERROR"
         ELSE IF AnyIn(required_value_patterns, error_msg_lower) THEN "REQUIRED_VALUE_ERROR"
         ELSE IF AnyIn(yaml_patterns, error_msg_lower) THEN "YAML_ERROR"
         ELSE IF AnyIn(schema_patterns, error_msg_lower) THEN "SCHEMA_ERROR"
         ELSE IF AnyIn(coalesce_patterns, error_msg_lower) THEN "COALESCE_ERROR"
         ELSE IF AnyIn(registry_patterns, error_msg_lower) THEN "REGISTRY_ERROR"
         ELSE IF AnyIn(storage_patterns, error_msg_lower) THEN "STORAGE_ERROR"
         ELSE IF AnyIn(auth_patterns, error_msg_lower) THEN "AUTH_ERROR"
         ELSE IF AnyIn(crd_patterns, error_msg_lower) THEN "CRD_ERROR"
         ELSE IF AnyIn(template_patterns, error_msg_lower) THEN "TEMPLATE_ERROR"
         ELSE IF AnyIn(library_patterns, error_msg_lower) THEN "LIBRARY_ERROR"
         ELSE IF AnyIn(deprecated_patterns, error_msg_lower) THEN "DEPRECATED_ERROR"
         ELSE IF AnyIn(timeout_patterns, error_msg_lower) THEN "TIMEOUT_ERROR"
         ELSE IF AnyIn(config_patterns, error_msg_lower) THEN "CONFIG_ERROR"
         ELSE IF In("error", error_msg_lower) \/ In("failed", error_msg_lower)
         THEN "UNKNOWN_ERROR"
         ELSE "UNKNOWN_ERROR"

(***************************************************************************)
(* One failed or successful run of the validator on a chart, with the      *)
(* diagnostic text it wrote: a text is up to MaxFragments fragments joined *)
(* by blanks.                                                              *)
(***************************************************************************)
MaxFragments == 2

Fragments ==
    << "Error:",
       "chart requires kubeVersion: >=1.21.0 which is incompatible with Kubernetes v1.20.0",
       "required value \"global.storageClass\" is missing",
       "Kubernetes version 1.20 is not supported",
       "failed to parse values.yaml",
       "values don't meet the specifications of the schema(s)",
       "wrong type for value; expected string; got map",
       "cannot pull image from registry",
       "storageClass not found",
       "Authentication required",
       "installCRDs must be a boolean",
       "template: deployment.yaml:12: function \"required\" not defined",
       "library charts are not installable",
       "This chart is deprecated",
       "context deadline exceeded",
       "invalid configuration",
       "execution error at (chart/templates/NOTES.txt:5:4)",
       "no resources found" >>

RECURSIVE TextsOf(_)
\* the texts of exactly n fragments
TextsOf(n) ==
    IF n = 0 THEN {""}
    ELSE {IF t = "" THEN Fragments[f] ELSE t \o " " \o Fragments[f] :
             t \in TextsOf(n - 1), f \in DOMAIN Fragments}

Texts == UNION {TextsOf(n) : n \in 0..MaxFragments}

InitClassify ==
    /\ detOracle = TRUE
    /\ known = NothingKnown /\ oracleLog = <<>>
    /\ mpc = "idle" /\ working_set = <<>> /\ params = <<>>
    /\ param_names = <<>> /\ mIdx = 0 /\ stack = <<>> /\ minimal_set = None
    /\ post = "none" /\ probe = NoProbe /\ first_result = None
    /\ tpc = "none" /\ chart_info = None /\ solver_config = None
    /\ chart_results = NoneRecord /\ param_sets = <<>> /\ temp_dir = "none"
    /\ raised = None /\ task_result = NoneRecord
    /\ NoSolve
    /\ subprocess_run = "none"
    /\ stderr \in Texts
    /\ test_result = NoResult

\* lines 313-323: the validator exits with code 0
validate_success ==
    /\ test_result = NoResult
    /\ subprocess_run' = "returncode 0"
    /\ test_result' = SUCCESS
    /\ UNCHANGED <<stderr, mvars, tvars, svars>>

\* lines 324-335: the validator exits with another code, and the category of
\* the result is categorize_error(result.stderr)
validate_error ==
    /\ test_result = NoResult
    /\ subprocess_run' = "returncode 1"
    /\ test_result' = [status |-> "VALIDATE_ERROR", category |-> categorize_error(stderr)]
    /\ UNCHANGED <<stderr, mvars, tvars, svars>>

\* lines 336-346: the validator has not exited after 60 seconds
validate_timeout ==
    /\ test_result = NoResult
    /\ subprocess_run' = "TimeoutExpired"
    /\ test_result' = TIMEOUT
    /\ UNCHANGED <<stderr, mvars, tvars, svars>>

\* lines 347-357: the validator cannot be started
validate_not_launched ==
    /\ test_result = NoResult
    /\ subprocess_run' = "FileNotFoundError"
    /\ test_result' = LAUNCH_FAILURE
    /\ UNCHANGED <<stderr, mvars, tvars, svars>>

NextClassify ==
    \/ validate_success
    \/ validate_error
    \/ validate_timeout
    \/ validate_not_launched

SpecClassify == InitClassify /\ [][NextClassify]_vars

(***************************************************************************)
(* The claims about the minimizer, under SpecMinimize.                     *)
(***************************************************************************)
\* a deterministic validator is known to accept p
Accepted(p) ==
    detOracle /\ Items(p) \in DOMAIN known /\ known[Items(p)].status = "SUCCESS"

\* C2: singleton optimality.  The validator is deterministic and accepts the
\* working set P; whenever it also accepts one parameter of P alone (the fresh
\* call shows it), minimize(P) is a set of one parameter that it accepts.
C2_SingletonOptimality ==
    (/\ post = "probed" /\ Accepted(working_set)
     /\ Len(probe.parameters) = 1 /\ probe.result.status = "SUCCESS")
    => Len(minimal_set) = 1 /\ Accepted(minimal_set)

\* C3: local irreducibility.  The validator is deterministic and accepts the
\* working set P; no set made of minimize(P) less one of its parameters is
\* accepted by a fresh call.
C3_LocallyIrreducible ==
    (/\ post = "probed" /\ Accepted(working_set)
     /\ Items(probe.parameters) \subseteq Items(minimal_set)
     /\ Len(probe.parameters) = Len(minimal_set) - 1)
    => probe.result.status # "SUCCESS"

\* C4: size bound.  Whatever the validator answers, deterministic or not, and
\* whether or not it accepts the working set, the set a call of minimize
\* returns has at most as many parameters as the set it was given.
C4_SizeBound == mpc = "done" => Len(minimal_set) <= Len(params)

\* C4 witness: a flaky validator, a working set of three parameters, the singles
\* loop and the bisection have run (five calls at least) and two are returned
C4_Witness ==
    /\ mpc = "done" /\ ~detOracle /\ Len(params) = 3
    /\ Len(oracleLog) >= 5 /\ Len(minimal_set) = 2

\* C5: idempotence.  The validator is deterministic and accepts the working
\* set P; minimize applied to minimize(P) returns a dict equal to minimize(P).
C5_Idempotent ==
    (post = "again" /\ mpc = "done" /\ Accepted(working_set))
    => DictEq(minimal_set, first_result)

\* C5 witness: both calls ran the singles loop and the bisection on an accepted
\* set of three parameters
C5_Witness ==
    /\ post = "again" /\ mpc = "done" /\ Accepted(working_set)
    /\ Len(working_set) = 3 /\ Len(first_result) = 3 /\ Len(oracleLog) >= 12

(***************************************************************************)
(* The claims about one worker, under SpecTask.                            *)
(***************************************************************************)
\* C1: soundness.  The validator is deterministic; whenever the processing of
\* a chart, by either strategy, ends with minimal_success_params that is not
\* None, a fresh validator call with exactly that set has status SUCCESS.
C1_Soundness ==
    (/\ detOracle /\ tpc = "done" /\ post = "probed"
     /\ task_result.minimal_success_params # NoneParams
     /\ probe.parameters = task_result.minimal_success_params)
    => probe.result.status = "SUCCESS"

\* C1 witness: the binary strategy found all three parameters accepted, the
\* minimizer ran its singles loop and the bisection and returned the three,
\* and the fresh call on them was made
C1_Witness ==
    /\ detOracle /\ tpc = "done" /\ post = "probed"
    /\ solver_config.strategy = "binary"
    /\ Len(task_result.minimal_success_params) = 3
    /\ Len(task_result.attempts) = 3
    /\ Len(oracleLog) >= 10
    /\ probe.parameters = task_result.minimal_success_params

\* C10: the worker boundary.  When an exception is raised inside the strategy
\* function, _process_chart_task returns a record with minimal_success_params
\* None, the text of the exception, and the category UNKNOWN_ERROR
\* (unclassified).
C10_WorkerBoundary ==
    (tpc = "done" /\ raised # None)
    => /\ task_result.minimal_success_params = NoneParams
       /\ "error_details" \in DOMAIN task_result
       /\ task_result.error_details = raised
       /\ task_result.error_categories = <<"UNKNOWN_ERROR">>


(***************************************************************************)
(* The claims about ChartSolver.solve, under SpecSolve.  The key of a      *)
(* target is the key solve records it under, the text of its Path.         *)
(***************************************************************************)
KeyOf(p) == Normalize(p.parts)

\* the first run was stopped, and the last step before that was a
\* checkpoint save that wrote the file
StoppedAfterSave ==
    stopped_at.spc \in {"collect", "save", "report"} /\ stopped_at.last_step = "save"

\* C6 (Resumability): a batch stopped right after a checkpoint save and run
\* again by solve on the same chart_paths ends with the result map of the
\* run that was not interrupted.
C6_Resumable ==
    (run = "resumed" /\ spc \in {"returned", "raised"} /\ StoppedAfterSave)
    => DictEq(results, reference)

\* the first run was stopped after its first periodic save; the resumed run
\* took one record from the file, processed the two other charts and returned
C6_Witness ==
    /\ run = "resumed" /\ spc = "returned"
    /\ stopped_at = [spc |-> "collect", last_step |-> "save"]
    /\ Len(loaded) = 1 /\ Len(submitted) = 2 /\ Len(results) = 3
    /\ checkpoint.complete /\ Len(_load_checkpoint(checkpoint)) = 3

\* C7 (Resume skip): a target whose record is in the loaded checkpoint is not
\* submitted to a worker, no validator run is made for it, and its record
\* stays the checkpointed one.
C7_ResumeSkip ==
    (run = "resumed" /\ spc # "start")
    => \A i \in DOMAIN chart_paths :
          KeyOf(chart_paths[i]) \in KeySet(loaded)
          => /\ \A j \in DOMAIN submitted : StrOf(submitted[j]) # KeyOf(chart_paths[i])
             /\ \A j \in DOMAIN submitted :
                   StrOf(submitted[j]) = KeyOf(chart_paths[i]) => calls[j] = 0
             /\ KeyOf(chart_paths[i]) \in KeySet(results)
             /\ Get(results, KeyOf(chart_paths[i])) = Get(loaded, KeyOf(chart_paths[i]))

\* C8 (Checkpoint atomicity): when the process stops during _save_checkpoint,
\* _load_checkpoint reads the whole map the file held before, or the whole
\* new map.
C8_CheckpointAtomic ==
    (spc = "stopped" /\ stopped_at.spc = "dump")
    => \/ DictEq(_load_checkpoint(checkpoint), _load_checkpoint(replaced))
       \/ DictEq(_load_checkpoint(checkpoint), JsonLoad(JsonDump(results)))

\* C9 (One record per input target): when solve returns, the result map
\* holds a record for every element of chart_paths.
C9_OneRecordPerTarget ==
    spc = "returned"
    => \A i \in DOMAIN chart_paths : KeyOf(chart_paths[i]) \in KeySet(results)


(***************************************************************************)
(* The claims about categorize_error, under SpecClassify.                  *)
(***************************************************************************)
\* a occurs in text, and b occurs after that occurrence
Later(a, b, text) ==
    \E i \in 1..Len(text) - Len(a) + 1 :
       /\ SubSeq(text, i, i + Len(a) - 1) = a
       /\ In(b, SubSeq(text, i + Len(a), Len(text)))

\* C11 (Classifier precedence for version errors): a diagnostic text that
\* contains "kubeVersion", later "incompatible", and the word "error" is
\* given the version-incompatibility category.
C11_VersionPrecedence ==
    (/\ test_result.status = "VALIDATE_ERROR"
     /\ Later("kubeversion", "incompatible", lower(stderr))
     /\ In("error", lower(stderr)))
    => test_result.category = "KUBE_VERSION_ERROR"

\* the rules in the order of the decision list
PRECEDENCE ==
    << [category |-> "KUBE_VERSION_ERROR", patterns |-> kube_version_patterns],
       [category |-> "REQUIRED_VALUE_ERROR", patterns |-> required_value_patterns],
       [category |-> "YAML_ERROR", patterns |-> yaml_patterns],
       [category |-> "SCHEMA_ERROR", patterns |-> schema_patterns],
       [category |-> "COALESCE_ERROR", patterns |-> coalesce_patterns],
       [category |-> "REGISTRY_ERROR", patterns |-> registry_patterns],
       [category |-> "STORAGE_ERROR", patterns |-> storage_patterns],
       [category |-> "AUTH_ERROR", patterns |-> auth_patterns],
       [category |-> "CRD_ERROR", patterns |-> crd_patterns],
       [category |-> "TEMPLATE_ERROR", patterns |-> template_patterns],
       [category |-> "LIBRARY_ERROR", patterns |-> library_patterns],
       [category |-> "DEPRECATED_ERROR", patterns |-> deprecated_patterns],
       [category |-> "TIMEOUT_ERROR", patterns |-> timeout_patterns],
       [category |-> "CONFIG_ERROR", patterns |-> config_patterns] >>

\* the rules of which a pattern occurs in the text
Matched(text) == {i \in DOMAIN PRECEDENCE : AnyIn(PRECEDENCE[i].patterns, lower(text))}

\* C12 (Classifier is an ordered decision list): the category of a text is
\* that of the first rule, in the order version > required-value > parse >
\* schema > coalesce > registry > storage > auth > CRD > template > library >
\* deprecated > timeout > config, of which a pattern occurs in the text, and
\* UNKNOWN_ERROR for the empty text and for a text no rule matches.
C12_DecisionList ==
    test_result.status = "VALIDATE_ERROR"
    => test_result.category =
          IF Matched(stderr) = {} THEN "UNKNOWN_ERROR"
          ELSE PRECEDENCE[CHOOSE i \in Matched(stderr) :
                             \A j \in Matched(stderr) : i <= j].category

\* Scenario C: the text matches the required-value rule and the storage rule
C12_Witness ==
    /\ test_result.status = "VALIDATE_ERROR"
    /\ stderr = "required value \"global.storageClass\" is missing"
    /\ Matched(stderr) = {2, 7}
    /\ test_result.category = "REQUIRED_VALUE_ERROR"


(***************************************************************************)
(* The claims about the strategy functions, under SpecTask.                *)
(***************************************************************************)
\* processing has ended and the validator accepted the empty set, its first call
BaselineAccepted ==
    /\ tpc = "done" /\ post = "none"
    /\ Len(oracleLog) >= 1
    /\ oracleLog[1].parameters = <<>> /\ oracleLog[1].result.status = "SUCCESS"

\* the outcome of Scenario A
BaselineRecord(rec) ==
    /\ rec.minimal_success_params = <<>>
    /\ rec.attempts = << [parameters |-> <<>>, success |-> TRUE, error_category |-> None] >>

TimeoutStep ==
    /\ tpc \in {"baseline", "kube", "all", "targeted", "exhaustive"}
    /\ Len(oracleLog') = Len(oracleLog) + 1
    /\ oracleLog'[Len(oracleLog')].result.status = "TIMEOUT_ERROR"

\* C14 (Timeout handling): the Attempt of a strategy step whose validator
\* call timed out has success false and category TIMEOUT_ERROR, the step
\* raises nothing, and the controller goes on to its next step (the end of
\* the function when no step is left), never to the minimizer.
C14_TimeoutHandling ==
    [][TimeoutStep =>
         /\ chart_results'.attempts =
               Append(chart_results.attempts,
                      [parameters |-> oracleLog'[Len(oracleLog')].parameters,
                       success |-> FALSE, error_category |-> "TIMEOUT_ERROR"])
         /\ chart_results'.minimal_success_params = NoneParams
         /\ tpc' # "done" => raised' = None
         /\ tpc = "baseline" /\ solver_config.strategy # "exhaustive" => tpc' = "kube"
         /\ tpc = "baseline" /\ solver_config.strategy = "exhaustive"
               => tpc' \in {"exhaustive", "done"}
         /\ tpc = "kube" => tpc' = "all"
         /\ tpc \in {"all", "targeted"} => tpc' \in {"targeted", "done"}
         /\ tpc = "exhaustive" => tpc' \in {"exhaustive", "done"}
         /\ tpc' \in {"targeted", "exhaustive"} => param_sets' # <<>>
      ]_vars

\* the kubeVersion step timed out and the controller is at the step after it
C14_Witness ==
    /\ tpc = "all" /\ Len(oracleLog) = 2
    /\ oracleLog[2].result.status = "TIMEOUT_ERROR"
    /\ chart_results.attempts[2] =
          [parameters |-> << <<"kubeVersion", "1.28.0">> >>, success |-> FALSE,
           error_category |-> "TIMEOUT_ERROR"]
    /\ raised = None


\* C15 (No automatic retry after timeout): while one target is processed, a
\* parameter set whose validator call timed out is not passed to the
\* validator again.
C15_NoRetryAfterTimeout ==
    (tpc # "none" /\ post = "none")
    => \A i, j \in DOMAIN oracleLog :
          (i < j /\ oracleLog[i].result.status = "TIMEOUT_ERROR")
          => ~DictEq(oracleLog[j].parameters, oracleLog[i].parameters)


\* processing has ended for a chart whose archive cannot be opened or holds
\* no chart directory
SetupFailed == tpc = "done" /\ post = "none" /\ chart_info.archive # "ok"

\* the EXTRACTION_ERROR terminal record
ExtractionRecord(rec) ==
    /\ rec.classification = "EXTRACTION_ERROR"
    /\ rec.attempts = <<>>
    /\ rec.minimal_success_params = NoneParams
    /\ rec.error_categories = <<"EXTRACTION_ERROR">>

TargetRecord == IF tpc = "done" THEN task_result ELSE chart_results

\* the strategy function has started its validator calls
Processing == tpc \in {"baseline", "kube", "all", "targeted", "exhaustive", "minimize", "done"}

\* C17 (Full audit trail): every validator call made for a target has
\* appended one Attempt, in call order, with the parameters under test and
\* success equal to (status = SUCCESS): the attempts list has one entry per
\* validator call.
C17_AuditTrail ==
    (Processing /\ post = "none" /\ raised = None)
    => /\ Len(TargetRecord.attempts) = Len(oracleLog)
       /\ \A i \in DOMAIN oracleLog :
             /\ TargetRecord.attempts[i].parameters = oracleLog[i].parameters
             /\ TargetRecord.attempts[i].success = (oracleLog[i].result.status = "SUCCESS")

\* C18 (Attempt budget): the number of Attempt records of a target never
\* exceeds max_attempts_per_chart, whatever its value and the strategy.
C18_AttemptBudget ==
    Processing => Len(TargetRecord.attempts) <= solver_config.max_attempts_per_chart


(***************************************************************************)
(* More claims about ChartSolver.solve, under SpecSolve.                   *)
(***************************************************************************)
\* solve is blocked in future.result() of the next future in submission order
WaitingFor(i) == spc = "collect" /\ fIdx = i /\ i \in DOMAIN futures /\ futures[i] = "pending"

\* C19 (Merge order): results are merged in the order in which the workers
\* finish: a finished target is never left unmerged while solve waits for
\* an earlier-submitted target that is still running.
C19_MergeInArrivalOrder ==
    \A i, j \in DOMAIN futures : ~(WaitingFor(i) /\ i < j /\ futures[j] = "done")

HasMinimalParams(r) == "minimal_params" \in DOMAIN r /\ r.minimal_params # None

\* lines 1382-1386
successful_charts(d) == Cardinality({i \in DOMAIN d : HasMinimalParams(d[i][2])})

\* lines 1387-1391
failed_charts(d) == Cardinality({i \in DOMAIN d : ~HasMinimalParams(d[i][2])})

\* lines 774-780: the records whose minimal parameter set is not null
Minimized(d) ==
    {i \in DOMAIN d : /\ "minimal_success_params" \in DOMAIN d[i][2]
                      /\ d[i][2].minimal_success_params # NoneParams}

\* C21 (Report content): a solve that was given an output file completes,
\* and the summary of its report counts as successful the records whose
\* minimal parameter set is not null, successful and failed adding up to
\* the total.
C21_ReportContent ==
    (solver.output_file # None /\ spc \in {"returned", "raised"})
        => /\ spc = "returned"
           /\ successful_charts(results) = Cardinality(Minimized(results))
           /\ successful_charts(results) + failed_charts(results) = Len(results)

(***************************************************************************)
(* The order of the strategy steps, under SpecTask.                        *)
(***************************************************************************)
\* the strategy function has built a record with attempts
Attempting == Processing /\ "attempts" \in DOMAIN chart_results

\* lines 788, 809, 829 and 850-859: the parameter sets of the strategy steps
\* of the binary strategy, in the order of the code; first is the Attempt of
\* the baseline, whose category is the one tracked when the targeted
\* combinations are generated
StrategySteps(first) ==
    << <<>>, << <<"kubeVersion", "1.28.0">> >>,
       _create_all_params(solver_config.parameter_matrix) >>
    \o _create_targeted_combinations(
           chart_info.name, chart_results.classification, chart_results.provider,
           <<first.error_category>>)

\* the attempts are the first validator calls, made in the order of the
\* strategy steps, each one after the failure of all before it; a success
\* of the all-parameters or of a targeted step calls the minimizer on that set
StepsInOrder ==
    LET attempts == chart_results.attempts
        steps == StrategySteps(attempts[1])
    IN /\ Len(attempts) <= Len(oracleLog)
       /\ \A i \in DOMAIN attempts :
             /\ oracleLog[i].parameters = attempts[i].parameters
             /\ i <= Len(steps) /\ attempts[i].parameters = steps[i]
             /\ i < Len(attempts) => ~attempts[i].success
       /\ (Len(attempts) >= 3 /\ attempts[Len(attempts)].success)
             => /\ tpc \in {"minimize", "done"}
                /\ working_set = attempts[Len(attempts)].parameters
                /\ tpc = "done" => mpc = "done"

\* the minimal set of the record rec is the one the succeeding step yields
StepYields(rec) ==
    LET attempts == chart_results.attempts IN
    /\ (Len(attempts) = 2 /\ attempts[2].success)
          => rec.minimal_success_params = << <<"kubeVersion", "1.28.0">> >>
    /\ (Len(attempts) >= 3 /\ attempts[Len(attempts)].success)
          => rec.minimal_success_params = minimal_set

Bisected ==
    /\ mpc = "done" /\ post = "none"
    /\ Len(params) >= 3 /\ Len(oracleLog) > Len(params)

\* lines 376-407: the candidate set the bisection narrows cand to, under a
\* deterministic validator: the second half while it is accepted alone, or
\* else the first half while that is
RECURSIVE NarrowedTo(_)
NarrowedTo(cand) ==
    IF Len(cand) < 2 THEN cand
    ELSE IF Accepted(second_half_dict(cand)) THEN NarrowedTo(second_half_dict(cand))
    ELSE IF Accepted(first_half_dict(cand)) THEN NarrowedTo(first_half_dict(cand))
    ELSE cand

\* C23 (Bisection narrows to the succeeding half): under a deterministic
\* validator, when a half of the candidate set is accepted alone, the set
\* finally returned holds only parameters of that half: a failing base case
\* falls back to the set last seen accepted, not to a larger one.
C23_NarrowsToHalf ==
    (detOracle /\ Bisected) => KeySet(minimal_set) \subseteq KeySet(NarrowedTo(params))

\* the direct call has returned
Returned == mpc = "done" /\ post = "none" /\ params # <<>>

\* C24 (Re-verification before return): the set a call of the minimizer
\* returns was the argument of a successful validator call made during that
\* call, whatever the size of the input, one and two parameters included.
C24_VerifiedBeforeReturn ==
    Returned => \E i \in DOMAIN oracleLog :
                   /\ DictEq(oracleLog[i].parameters, minimal_set)
                   /\ oracleLog[i].result.status = "SUCCESS"

\* the set of one or two parameters was returned without any validator call
SmallSetReturned == (mpc = "done" /\ Len(params) <= 2) => minimal_set = params

\* C25 (Small sets are returned unchanged): a call of the minimizer on a set
\* of at most two parameters returns that set and makes no validator call.
C25_SmallSetsUnchanged ==
    /\ [](post = "none" /\ Len(params) <= 2 => SmallSetReturned /\ oracleLog = <<>>)
    /\ [][(mpc = "enter" /\ Len(params) <= 2)
             => mpc' = "done" /\ minimal_set' = params /\ oracleLog' = oracleLog]_vars

\* two parameters went in, the same two came out and the validator was not run
C25_Witness ==
    /\ mpc = "done" /\ post = "none" /\ Len(params) = 2
    /\ minimal_set = params /\ oracleLog = <<>>
    /\ params[1][1] = "kubeVersion"

\* lines 458-460: the i-th validator call tested one parameter of params
SingleTest(i) ==
    /\ Len(oracleLog[i].parameters) = 1
    /\ oracleLog[i].parameters[1] \in Items(params)

\* C26 (Singles first): for three or more parameters the first validator
\* calls of the minimizer test the parameters one by one in sorted key order,
\* before any bisection call; the first success ends the call, which returns
\* that singleton and makes no further validator call, so every single with a
\* smaller key was tested and rejected.
C26_SinglesFirst ==
    (post = "none" /\ tpc = "none" /\ Len(params) >= 3)
    => \A i \in DOMAIN oracleLog :
          i <= Len(params)
          => /\ SingleTest(i)
             /\ i > 1 => /\ Rank(oracleLog[i - 1].parameters[1][1])
                              < Rank(oracleLog[i].parameters[1][1])
                         /\ oracleLog[i - 1].result.status # "SUCCESS"
             /\ \A k \in KeySet(params) :
                   Rank(k) < Rank(oracleLog[i].parameters[1][1])
                   => \E j \in 1..(i - 1) : oracleLog[j].parameters[1][1] = k
             /\ oracleLog[i].result.status = "SUCCESS"
                   => /\ i = Len(oracleLog) /\ mpc = "done"
                      /\ minimal_set = oracleLog[i].parameters

\* the working set was inserted in another order than the sorted one; its
\* smallest key was rejected, the next one accepted and returned
C26_Witness ==
    /\ post = "none" /\ tpc = "none" /\ mpc = "done"
    /\ Keys(params) = <<"kubeVersion", "global.security.allowInsecureImages",
                        "global.imageRegistry">>
    /\ Len(oracleLog) = 2
    /\ minimal_set = << <<"global.security.allowInsecureImages", "True">> >>

\* the activation that receives what the running one returns: the caller
\* nearest to the top of the callers s that does not return the value as it
\* is (lines 390-392 and 405-407 do), or 0 if the value goes to the minimizer
RECURSIVE Receiver(_)
Receiver(s) ==
    IF s = <<>> THEN 0
    ELSE IF Top(s).at = "tail" THEN Receiver(Pop(s)) ELSE Len(s)

\* lines 414-420 and 471-478: the value v returned to the callers s has
\* arrived: as minimal_first, in the union with minimal_first, or as the
\* result of the minimizer
Received(s, v) ==
    LET k == Receiver(s) IN
    IF k = 0 THEN mpc' = "done" /\ minimal_set' = v
    ELSE /\ mpc' = "rec" /\ Len(stack') >= k
         /\ s[k].at = "recFirst" => stack'[k].at = "recSecond" /\ stack'[k].held = v
         /\ s[k].at = "recSecond"
               => /\ Len(stack') = k /\ stack'[k].at = "verify"
                  /\ KeySet(stack'[k].held) = KeySet(s[k].held) \cup KeySet(v)
                  /\ \A it \in Items(v) : it \in Items(stack'[k].held)

\* the validator call the step has made
LastCall == oracleLog'[Len(oracleLog')]

\* C27 (Union re-verify and fallback): when neither half was accepted alone,
\* the union of the two recursive results is passed to the validator exactly
\* once; the activation returns the union if that call succeeds and its own
\* candidate set, as it was before the split, if not.
C27_UnionVerified ==
    /\ [][(mpc = "rec" /\ Top(stack).at = "verify")
             => /\ oracleLog' = Append(oracleLog, [parameters |-> Top(stack).held,
                                                  result |-> LastCall.result])
                /\ Received(Pop(stack),
                            IF LastCall.result.status = "SUCCESS"
                            THEN Top(stack).held ELSE Top(stack).cand)]_vars
    /\ [][(mpc = "rec" /\ Top(stack).at = "base")
             => Received(Pop(stack),
                         IF LastCall.result.status = "SUCCESS"
                         THEN Top(stack).cand ELSE params)]_vars
    /\ [](mpc = "rec" => \A k \in DOMAIN stack :
             stack[k].at = "verify" => k = Len(stack))

\* the union of the results of the second half was rejected, and the
\* activation of that half has returned its candidate set, two parameters,
\* to the activation of the whole set, which is about to test its own union
C27_Witness ==
    /\ mpc = "rec" /\ post = "none" /\ Len(stack) = 1 /\ Len(params) = 3
    /\ Top(stack).at = "verify"
    /\ oracleLog[Len(oracleLog)].result.status # "SUCCESS"
    /\ Len(oracleLog[Len(oracleLog)].parameters) = 3
    /\ Len(oracleLog) = 11

\* C28 (Bounded oracle cost): one call of the minimizer on n >= 3 parameters
\* makes at most 5n - 3 validator calls, whatever the validator answers: n
\* tests of single parameters and at most 4n - 3 calls in the bisection.
C28_BoundedCost ==
    (post = "none" /\ tpc = "none" /\ Len(params) >= 3)
    => /\ Len(oracleLog) <= 5 * Len(params) - 3
       /\ mpc = "singles" => Len(oracleLog) < Len(params)
       /\ mpc = "rec" => Len(oracleLog) < 5 * Len(params) - 3

\* the worst case: every single, both halves at both levels, every base case
\* and both unions were tested, twelve calls for three parameters
C28_Witness ==
    /\ post = "none" /\ tpc = "none" /\ mpc = "done"
    /\ Len(params) = 3 /\ Len(oracleLog) = 12

(***************************************************************************)
(* More claims about the strategy functions, under SpecTask.               *)
(***************************************************************************)
\* the strategy function has returned the record it built
Ended == Attempting /\ tpc = "done" /\ post = "none" /\ raised = None

\* C29 (Categories seen are complete): when the processing of a target has
\* ended, with or without success, error_categories holds the category of
\* every failed Attempt, those of the kubeVersion step and of the
\* all-parameters step included.
C29_CategoriesComplete ==
    Ended => \A i \in DOMAIN task_result.attempts :
                ~task_result.attempts[i].success
                => task_result.attempts[i].error_category
                      \in Items(task_result.error_categories)

\* C30 (Exhaustive strategy is an extension of the escalation): with the
\* exhaustive strategy the attempts are those of the baseline, kubeVersion,
\* all-parameters and targeted steps, then the combinations in ascending
\* size, and no attempt follows a success.
C30_ExhaustiveExtends ==
    (Attempting /\ solver_config.strategy = "exhaustive")
    => LET attempts == chart_results.attempts
           steps == StrategySteps(attempts[1])
       IN \A i \in DOMAIN attempts :
             /\ i <= Len(steps) => attempts[i].parameters = steps[i]
             /\ i < Len(attempts) => ~attempts[i].success
             /\ (i > Len(steps) /\ i < Len(attempts))
                   => Len(attempts[i].parameters) <= Len(attempts[i + 1].parameters)

(***************************************************************************)
(* The targeted combinations, under SpecTask.                              *)
(***************************************************************************)
\* the all-parameters step has just failed: param_sets is the list that
\* _create_targeted_combinations returned
TargetedGenerated ==
    /\ Attempting /\ solver_config.strategy # "exhaustive" /\ post = "none"
    /\ tpc \in {"targeted", "done"}
    /\ Len(chart_results.attempts) = 3 /\ ~chart_results.attempts[3].success

\* C31 (Targeted combinations react to observed errors): if SCHEMA_ERROR was
\* the category of the baseline, the kubeVersion or the all-parameters
\* attempt, the targeted list of the target holds the combination
\* {kubeVersion: 1.28.0, installCRDs: true}.
C31_SchemaCombination ==
    (/\ TargetedGenerated
     /\ \E i \in 1..3 : chart_results.attempts[i].error_category = "SCHEMA_ERROR")
    => \E k \in DOMAIN param_sets :
          DictEq(param_sets[k], << <<"kubeVersion", "1.28.0">>, <<"installCRDs", "True">> >>)

\* the combinations appended for the target, before deduplication
Candidates ==
    TargetedCandidates(chart_info.name, chart_results.classification, chart_results.provider,
                       <<chart_results.attempts[1].error_category>>)

\* the positions of the list c that hold the first occurrence of a dict
FirstOccurrences(c) ==
    {i \in DOMAIN c : \A j \in 1..(i - 1) : ~DictEq(c[j], c[i])}

\* C32 (Deduplication): the list _create_targeted_combinations returns holds
\* no two parameter sets with the same (key, value) pairs, and is the list
\* of the first occurrences of the appended combinations, in their order.
C32_Deduplicated ==
    TargetedGenerated
    => LET c == Candidates
           firsts == FirstOccurrences(c)
       IN /\ \A i, j \in DOMAIN param_sets : i < j => ~DictEq(param_sets[i], param_sets[j])
          /\ Len(param_sets) = Cardinality(firsts)
          /\ \A k \in DOMAIN param_sets :
                \E i \in firsts :
                   /\ Cardinality({j \in firsts : j <= i}) = k
                   /\ param_sets[k] = c[i]

\* provider bitnami with classification BITNAMI: the shared combination was
\* appended twice and is once in the list, before the redis combination
C32_Witness ==
    /\ TargetedGenerated
    /\ chart_results.provider = "bitnami" /\ chart_results.classification = "BITNAMI"
    /\ Len(param_sets) = 11
    /\ LET c == Candidates IN
       /\ Len(c) = 12 /\ c[10] = c[11]
       /\ param_sets[10] = c[10] /\ param_sets[11] = c[12]

SameRun == run' = run /\ spc # "start"

\* C34 (Single checkpoint writer): whatever the interleaving of the workers
\* and solve, the checkpoint file is changed only by a step of
\* _save_checkpoint in the process that runs solve, never by the step of a
\* worker, and while the file is open for one write no other write begins.
C34_SingleWriter ==
    /\ [][(SameRun /\ checkpoint' # checkpoint)
             => /\ spc \in {"save", "dump"}
                /\ futures' = futures /\ calls' = calls]_vars
    /\ [][(SameRun /\ futures' # futures)
             => checkpoint' = checkpoint /\ replaced' = replaced]_vars
    /\ [][(SameRun /\ spc = "dump" /\ checkpoint' # checkpoint)
             => checkpoint'.complete /\ spc' # "dump" /\ replaced' = replaced]_vars

\* a worker has finished while solve had the file open and half written, and
\* another worker is still running
C34_Witness ==
    /\ spc = "dump" /\ checkpoint.exists /\ ~checkpoint.complete
    /\ solver.max_workers = 2
    /\ fIdx \in DOMAIN futures /\ futures[fIdx] = "done"
    /\ \E j \in DOMAIN futures : futures[j] = "pending"

TerminalStates(rec) ==
    { t \in {"success", "no set found", "extraction error", "processing error"} :
         \/ t = "success" /\ rec.minimal_success_params # NoneParams
         \/ /\ t = "no set found"
            /\ rec.minimal_success_params = NoneParams
            /\ rec.attempts # <<>>
         \/ t = "extraction error" /\ rec.classification = "EXTRACTION_ERROR"
         \/ t = "processing error" /\ rec.classification = "PROCESSING_ERROR" }

\* a call has started: a worker on a target, the minimizer called directly,
\* or solve
Started == tpc = "start" \/ (tpc = "none" /\ mpc = "enter") \/ spc = "start"

\* the call has ended: the worker returned a record in exactly one terminal
\* state (the minimizer it called has returned), the minimizer returned, solve
\* returned or _generate_report raised out of it, or the process of the first
\* run was stopped from outside
Terminated ==
    \/ tpc = "done" /\ mpc \in {"idle", "done"}
                    /\ Cardinality(TerminalStates(task_result)) = 1
    \/ tpc = "none" /\ mpc = "done"
    \/ spc \in {"returned", "raised"}
    \/ run = "first" /\ spc = "stopped"

ReturnedRecords ==
    IF tpc = "done" /\ post = "none"
    THEN {rec \in {chart_results, task_result} : "attempts" \in DOMAIN rec}
    ELSE {}

\* C37 (Success invariant of a target record): in every record returned by
\* the binary or the exhaustive strategy, minimal_success_params is non-null
\* if and only if the last Attempt has success true; no Attempt with success
\* true is followed by another Attempt (so at most one has success true); a
\* record with an empty attempts list has null minimal_success_params.
C37_SuccessInvariant ==
    \A rec \in ReturnedRecords :
       LET attempts == rec.attempts IN
       /\ rec.minimal_success_params # NoneParams
             <=> (attempts # <<>> /\ attempts[Len(attempts)].success)
       /\ \A i \in DOMAIN attempts : attempts[i].success => i = Len(attempts)
       /\ attempts = <<>> => rec.minimal_success_params = NoneParams

C37_Witness ==
    /\ solver_config.strategy = "exhaustive"
    /\ chart_results \in ReturnedRecords /\ task_result = chart_results
    /\ Len(chart_results.attempts) = 4
    /\ chart_results.attempts[4].success
    /\ chart_results.minimal_success_params # NoneParams

\* the minimizer called on a working set of three or more parameters that
\* the deterministic validator accepts has returned
MinimizedWorkingSet ==
    /\ detOracle /\ mpc = "done" /\ post = "none"
    /\ Len(params) >= 3 /\ Accepted(params)

SavedBefore ==
    {loaded} \cup (IF replaced.exists /\ replaced.complete
                   THEN {JsonLoad(replaced.json)} ELSE {})

\* C39 (Checkpoint growth is monotone): in a run of solve that loaded a
\* readable checkpoint, every save writes a map that has every key of the
\* loaded checkpoint and of the earlier save it replaces, each with the
\* record it had there: a saved record is never replaced by a different one.
C39_CheckpointGrowth ==
    [][(/\ run = "resumed" /\ run' = run /\ loaded # <<>>
        /\ checkpoint' # checkpoint /\ checkpoint'.complete)
          => LET written == JsonLoad(checkpoint'.json) IN
             \A before \in SavedBefore :
                /\ KeySet(before) \subseteq KeySet(written)
                /\ Items(before) \subseteq Items(written)]_vars

====
